---------------------------- MODULE Spec2Model ----------------------------
(***************************************************************************)
(* Cache-hierarchy simulator and fault injector (QEMU plugin).             *)
(*                                                                         *)
(* The generic set-associative cache engine (cache-common.c), the three    *)
(* cache singletons built on it (icache.c, dcache.c, l2cache.c) and the    *)
(* access driver / fault injector (fault-inject.c).                        *)
(*                                                                         *)
(* Two specifications:                                                     *)
(*   CacheSpec  one cache engine, driven directly through its API, with    *)
(*              the configuration and policies drawn at construction;      *)
(*   Spec       the plugin: the three singletons behind the callbacks of   *)
(*              the access driver, and the injector.                       *)
(***************************************************************************)
EXTENDS Integers, Sequences, FiniteSets, TLC

(***************************************************************************)
(* Bounds of the model.                                                    *)
(***************************************************************************)
\* width in bits of the guest address word (arch_word_t) in the model
AddrBits == 3
\* the largest tag among the addresses the guest presents
MaxTag == 2
\* number of engine operations explored by CacheSpec
MaxOps == 4
\* number of execution callbacks explored by Spec
MaxSteps == 3
\* number of translation blocks translated in Spec
MaxTb == 2

(***************************************************************************)
(* Enumerations of cache-sim.h.                                            *)
(***************************************************************************)
POLICY_ROUND_ROBIN == "POLICY_ROUND_ROBIN"
POLICY_RANDOM == "POLICY_RANDOM"
POLICY_WRITE_ALLOCATE == "POLICY_WRITE_ALLOCATE"
POLICY_NO_WRITE_ALLOCATE == "POLICY_NO_WRITE_ALLOCATE"
CACHE_RESULT_MISS == "CACHE_RESULT_MISS"
CACHE_RESULT_HIT == "CACHE_RESULT_HIT"

\* dirty byte of an entry (cache-common.h): UINT8_MAX marks an invalid entry
CACHE_DIRTY == 255
CACHE_NOT_DIRTY == 0

(***************************************************************************)
(* Machine arithmetic.                                                     *)
(***************************************************************************)
RECURSIVE Pow2(_)
Pow2(n) == IF n = 0 THEN 1 ELSE 2 * Pow2(n - 1)

\* number of values of arch_word_t
WordMod == Pow2(AddrBits)

\* the addresses the guest can present
Addrs == 0 .. (WordMod - 1)

\* x >> n and x << n on arch_word_t
Shr(x, n) == x \div Pow2(n)
Shl(x, n) == (x * Pow2(n)) % WordMod

RECURSIVE BitAnd(_, _)
BitAnd(x, y) ==
    IF x = 0 \/ y = 0 THEN 0
    ELSE (x % 2) * (y % 2) + 2 * BitAnd(x \div 2, y \div 2)

RECURSIVE BitOr(_, _)
BitOr(x, y) ==
    IF x = 0 THEN y
    ELSE IF y = 0 THEN x
    ELSE (IF (x % 2) + (y % 2) > 0 THEN 1 ELSE 0) + 2 * BitOr(x \div 2, y \div 2)

\* #define CREATE_BIT_MASK(x) ((1U << (x)) - 1)
CREATE_BIT_MASK(x) == Pow2(x) - 1

\* #define LOG_2(x) (31U - (uint32_t) __builtin_clz(x)): index of the top set bit
RECURSIVE LOG_2(_)
LOG_2(x) == IF x <= 1 THEN 0 ELSE 1 + LOG_2(x \div 2)

(***************************************************************************)
(* uint32_t values that do not fit the model checker's integers are kept   *)
(* as four bytes, least significant first.                                 *)
(***************************************************************************)
U32Zero == <<0, 0, 0, 0>>

\* (uint32_t)(x * k) for a small multiplier k, byte by byte with carry
U32MulSmall(x, k) ==
    LET p0 == x[1] * k
        p1 == x[2] * k + (p0 \div 256)
        p2 == x[3] * k + (p1 \div 256)
        p3 == x[4] * k + (p2 \div 256)
    IN  <<p0 % 256, p1 % 256, p2 % 256, p3 % 256>>

\* x % m for a small modulus m
U32Mod(x, m) ==
    LET r3 == x[4] % m
        r2 == (r3 * 256 + x[3]) % m
        r1 == (r2 * 256 + x[2]) % m
    IN  (r1 * 256 + x[1]) % m

\* a variant of RANDOM_U32 with the multiplier 16807
RANDOM_U32_Mul16807(prev) == U32MulSmall(prev, 16807)

\* #define RANDOM_U32(prev) ((uint32_t)(prev * 48271U))
RANDOM_U32(prev) == U32MulSmall(prev, 48271)


(***************************************************************************)
(* The cache engine (cache-common.c).  A cache_t is a record; the engine's *)
(* functions are operators from a cache_t to the cache_t they leave.       *)
(***************************************************************************)

\* a cache_t in static storage before init_cache_struct: all bytes zero
ZeroCache ==
    [ table            |-> <<>>,
      load_hits        |-> 0,
      load_misses      |-> 0,
      store_hits       |-> 0,
      store_misses     |-> 0,
      miss_type_counts |-> [compulsory |-> 0, evictions |-> 0],
      cacheSize        |-> 0,
      rows             |-> 0,
      associativity    |-> 0,
      blockSize        |-> 0,
      validFlag        |-> 0,
      replace          |-> [prev |-> U32Zero, round_robin |-> <<>>],
      replace_policy   |-> POLICY_ROUND_ROBIN,
      alloc_policy     |-> POLICY_WRITE_ALLOCATE,
      maskInfo         |-> [blockOffsetMask |-> 0, rowMask |-> 0,
                            rowShift |-> 0, tagShift |-> 0],
      freed            |-> FALSE ]

\* what memset(data, ~0, byteSize) leaves in an entry
InvalidEntry == [tag |-> WordMod - 1, dirty |-> CACHE_DIRTY]

init_cache_struct(cp, cacheSize, associativity, blockSize, replace_policy, alloc_policy) ==
    LET rowBytes        == blockSize * associativity
        numRows         == cacheSize \div rowBytes
        blockOffsetBits == LOG_2(blockSize)
        numRowBits      == LOG_2(numRows)
    IN  [ cp EXCEPT
            !.cacheSize      = cacheSize,
            !.rows           = numRows,
            !.associativity  = associativity,
            !.blockSize      = blockSize,
            !.replace_policy = replace_policy,
            !.alloc_policy   = alloc_policy,
            !.maskInfo       = [ blockOffsetMask |-> CREATE_BIT_MASK(blockOffsetBits),
                                 rowMask         |-> CREATE_BIT_MASK(numRowBits),
                                 rowShift        |-> blockOffsetBits,
                                 tagShift        |-> blockOffsetBits + numRowBits ],
            !.table          = [r \in 0 .. (numRows - 1) |->
                                  [w \in 0 .. (associativity - 1) |-> InvalidEntry]],
            !.replace        = IF replace_policy = POLICY_ROUND_ROBIN
                                 THEN [@ EXCEPT !.round_robin =
                                         [r \in 0 .. (numRows - 1) |-> 0]]
                                 ELSE @,
            !.load_hits      = 0,
            !.load_misses    = 0,
            !.store_hits     = 0,
            !.store_misses   = 0,
            !.validFlag      = 1 ]

\* the value init_cache_struct returns: "return 0;" is its only return
init_cache_struct_status(cacheSize, associativity, blockSize) == 0

\* a variant of free_cache_struct that releases nothing and leaves validFlag set
free_cache_struct_FlagKept(cp) ==
    [cp EXCEPT !.freed = TRUE]

\* validFlag is cleared first, then the table and the round-robin array are
\* freed: what they held can no longer be read
free_cache_struct(cp) ==
    [cp EXCEPT !.validFlag = 0,
               !.table = <<>>,
               !.replace.round_robin =
                   IF cp.replace_policy = POLICY_ROUND_ROBIN THEN <<>> ELSE @,
               !.freed = TRUE]

\* address decomposition, as in cache_load_common and cache_store_common
RowIdxOf(cp, vaddr) ==
    BitAnd(Shr(vaddr % WordMod, cp.maskInfo.rowShift), cp.maskInfo.rowMask)
\* a variant of the tag that shifts by the row bits only and so keeps the
\* block offset in the tag
TagBitsOf_OffsetKept(cp, vaddr) ==
    Shr(vaddr % WordMod, cp.maskInfo.tagShift - cp.maskInfo.rowShift)
TagBitsOf(cp, vaddr) == Shr(vaddr % WordMod, cp.maskInfo.tagShift)

Ways(cp) == 0 .. (cp.associativity - 1)
Rows(cp) == 0 .. (cp.rows - 1)

\* the scan "if ((!cacheRow[i].dirty) && (cacheRow[i].tag == tagBits))"
TagLookup(cp, rowIdx, tagBits) ==
    IF \E i \in Ways(cp) : cp.table[rowIdx][i].dirty = 0
                           /\ cp.table[rowIdx][i].tag = tagBits
      THEN CACHE_RESULT_HIT
      ELSE CACHE_RESULT_MISS

\* the scan "first look for invalid places to put it": the first dirty way, or -1
FirstDirty(cp, rowIdx) ==
    IF \E i \in Ways(cp) : cp.table[rowIdx][i].dirty # 0
      THEN CHOOSE i \in Ways(cp) :
             /\ cp.table[rowIdx][i].dirty # 0
             /\ \A j \in Ways(cp) : j < i => cp.table[rowIdx][j].dirty = 0
      ELSE -1

\* a variant of cache_get_next_victim whose round-robin cursor is one for the
\* whole cache, kept in the cell of row 0
cache_get_next_victim_OneCursor(cp, rowIdx) ==
    IF cp.replace_policy = POLICY_RANDOM
      THEN LET prev == RANDOM_U32(cp.replace.prev)
           IN  [ cp  |-> [cp EXCEPT !.replace.prev = prev],
                 way |-> U32Mod(prev, cp.associativity) ]
      ELSE LET nextRowIdx == cp.replace.round_robin[0]
               bumped     == IF nextRowIdx + 1 >= cp.associativity
                               THEN 0 ELSE nextRowIdx + 1
           IN  [ cp  |-> [cp EXCEPT !.replace.round_robin[0] = bumped],
                 way |-> nextRowIdx ]

\* returns the cache with its replacement state advanced, and the victim way
cache_get_next_victim(cp, rowIdx) ==
    IF cp.replace_policy = POLICY_RANDOM
      THEN LET prev == RANDOM_U32(cp.replace.prev)
           IN  [ cp  |-> [cp EXCEPT !.replace.prev = prev],
                 way |-> U32Mod(prev, cp.associativity) ]
      ELSE LET nextRowIdx == cp.replace.round_robin[rowIdx]
               bumped     == IF nextRowIdx + 1 >= cp.associativity
                               THEN 0 ELSE nextRowIdx + 1
           IN  [ cp  |-> [cp EXCEPT !.replace.round_robin[rowIdx] = bumped],
                 way |-> nextRowIdx ]

\* miss classification: a fill of an invalid slot is a compulsory miss,
\* a fill that displaces a valid entry is an eviction
count_miss_type(cp, priorDirty) ==
    IF priorDirty # 0
      THEN [cp EXCEPT !.miss_type_counts.compulsory = @ + 1]
      ELSE [cp EXCEPT !.miss_type_counts.evictions = @ + 1]

\* a variant of FindSpot that asks the replacement policy even when the row
\* has an invalid way
FindSpot_VictimFirst(cp, rowIdx) ==
    cache_get_next_victim(cp, rowIdx)

\* a variant of FindSpot that fills the invalid way it finds and advances the
\* replacement state all the same
FindSpot_AlwaysAdvance(cp, rowIdx) ==
    IF FirstDirty(cp, rowIdx) # -1
      THEN [cp |-> cache_get_next_victim(cp, rowIdx).cp, way |-> FirstDirty(cp, rowIdx)]
      ELSE cache_get_next_victim(cp, rowIdx)

\* the slot a miss fills: an invalid way if there is one, else the next victim
FindSpot(cp, rowIdx) ==
    IF FirstDirty(cp, rowIdx) # -1
      THEN [cp |-> cp, way |-> FirstDirty(cp, rowIdx)]
      ELSE cache_get_next_victim(cp, rowIdx)

\* a variant of CountLoad that leaves hits uncounted
CountLoad_MissesOnly(cp, result) ==
    IF result = CACHE_RESULT_HIT
      THEN cp
      ELSE [cp EXCEPT !.load_misses = @ + 1]

\* "if (result) { cp->load_hits += 1; ... } cp->load_misses += 1;"
CountLoad(cp, result) ==
    IF result = CACHE_RESULT_HIT
      THEN [cp EXCEPT !.load_hits = @ + 1]
      ELSE [cp EXCEPT !.load_misses = @ + 1]

\* a variant of InstallEntry that writes the tag and leaves the entry invalid
InstallEntry_TagOnly(cp, rowIdx, way, tagBits) ==
    [cp EXCEPT !.table[rowIdx][way].tag = tagBits]

\* "foundSpot->dirty = CACHE_NOT_DIRTY; foundSpot->tag = tagBits;"
InstallEntry(cp, rowIdx, way, tagBits) ==
    [cp EXCEPT !.table[rowIdx][way] = [tag |-> tagBits, dirty |-> CACHE_NOT_DIRTY]]

cache_load_common(cp, vaddr) ==
    IF cp.validFlag = 0
      THEN [cp |-> cp, result |-> CACHE_RESULT_MISS]
      ELSE
        LET rowIdx  == RowIdxOf(cp, vaddr)
            tagBits == TagBitsOf(cp, vaddr)
            result  == TagLookup(cp, rowIdx, tagBits)
            counted == CountLoad(cp, result)
        IN  IF result = CACHE_RESULT_HIT
              THEN [cp |-> counted, result |-> CACHE_RESULT_HIT]
              ELSE
                LET spot   == FindSpot(counted, rowIdx)
                    prior  == spot.cp.table[rowIdx][spot.way].dirty
                    filled == InstallEntry(spot.cp, rowIdx, spot.way, tagBits)
                IN  [ cp     |-> count_miss_type(filled, prior),
                      result |-> CACHE_RESULT_MISS ]

\* a variant of CountStore that leaves misses uncounted
CountStore_HitsOnly(cp, result) ==
    IF result = CACHE_RESULT_HIT
      THEN [cp EXCEPT !.store_hits = @ + 1]
      ELSE cp

\* "if (result) { cp->store_hits += 1; ... } cp->store_misses += 1;"
CountStore(cp, result) ==
    IF result = CACHE_RESULT_HIT
      THEN [cp EXCEPT !.store_hits = @ + 1]
      ELSE [cp EXCEPT !.store_misses = @ + 1]

\* a variant of StoreAllocate that looks for a spot under either policy
StoreAllocate_AnyPolicy(cp, rowIdx) == FindSpot(cp, rowIdx).cp

\* the block "if (cp->alloc_policy == POLICY_WRITE_ALLOCATE)" of
\* cache_store_common: a spot is looked for, which advances the victim cursor
\* or seed when the row is full; the spot found is not written
StoreAllocate(cp, rowIdx) ==
    IF cp.alloc_policy = POLICY_WRITE_ALLOCATE
      THEN FindSpot(cp, rowIdx).cp
      ELSE cp

cache_store_common(cp, vaddr) ==
    IF cp.validFlag = 0
      THEN [cp |-> cp, result |-> CACHE_RESULT_MISS]
      ELSE
        LET rowIdx  == RowIdxOf(cp, vaddr)
            tagBits == TagBitsOf(cp, vaddr)
            result  == TagLookup(cp, rowIdx, tagBits)
        IN  [ cp     |-> CountStore(StoreAllocate(cp, rowIdx), result),
              result |-> result ]

cache_invalidate_block_common(cp, row, block) ==
    IF cp.validFlag = 0
      THEN cp
      ELSE [cp EXCEPT !.table[row][block].dirty = CACHE_DIRTY]

cache_block_valid_common(cp, row, block) ==
    IF cp.validFlag = 0
      THEN 0
      ELSE IF cp.table[row][block].dirty = 0 THEN 1 ELSE 0

\* what "cp->table[row][block].dirty = CACHE_DIRTY" can do: with indices of
\* the table, the entry is invalidated; with others the byte is written out of
\* bounds, where it is lost, lands on an entry of the table, or faults
InvalidateOutcomes(cp, row, block) ==
    IF cp.validFlag = 0 \/ (row \in Rows(cp) /\ block \in Ways(cp))
      THEN { [cp |-> cache_invalidate_block_common(cp, row, block), pc |-> "run"] }
      ELSE { [cp |-> cp, pc |-> "run"], [cp |-> cp, pc |-> "crashed"] }
           \cup { [cp |-> cache_invalidate_block_common(cp, r, w), pc |-> "run"] :
                    r \in Rows(cp), w \in Ways(cp) }


(***************************************************************************)
(* The instruction decoder (arm-disas.c, arm-disas.h).  A uint32_t          *)
(* instruction word is kept as four bytes, least significant first.        *)
(***************************************************************************)
\* bits [lo + n - 1 : lo] of the word w: "(w & (CREATE_BIT_MASK(n) << lo)) >> lo"
Field(w, lo, n) ==
    LET lo16 == w[1] + (256 * w[2])
        hi16 == w[3] + (256 * w[4])
    IN  IF lo >= 16
          THEN (hi16 \div Pow2(lo - 16)) % Pow2(n)
          ELSE IF lo + n <= 16
                 THEN (lo16 \div Pow2(lo)) % Pow2(n)
                 ELSE ((hi16 % Pow2(lo + n - 16)) * Pow2(16 - lo)) + (lo16 \div Pow2(lo))

GET_INSN_OP1_BITS(insn) == Field(insn, 25, 3)
GET_INSN_OP_BIT(insn) == Field(insn, 4, 1)
GET_LDST_COND(bits) == Field(bits, 28, 4)
GET_LDST_RN_BITS(bits) == Field(bits, 16, 4)
GET_LDST_RT_BITS(bits) == Field(bits, 12, 4)
GET_LDSTM_OP_BITS(bits) == Field(bits, 20, 6)
GET_LDSTM_RN_BITS(bits) == Field(bits, 16, 4)
GET_LDSTM_R_BIT(bits) == Field(bits, 15, 1)
GET_LDSTM_REGLIST(bits) == Field(bits, 0, 16)
GET_COPROC_OP1_BITS(bits) == Field(bits, 20, 6)
GET_COPROC_RN_BITS(bits) == Field(bits, 16, 4)
GET_COPROC_CP_BITS(bits) == Field(bits, 8, 4)
GET_COPROC_IMM8_BITS(bits) == Field(bits, 0, 8)
GET_COPROC_RD_BITS(bits) == Field(bits, 12, 4)

\* the enumerators of block_load_store_e and of cp_load_store_e, with the
\* bases they are counted from
LD_TYPE_BASE == 256
STR_BLK_TYPE_BASE == 8193
LD_BLK_TYPE_BASE == 8448
STR_CP_TYPE_BASE == 12289
LD_CP_TYPE_BASE == 12544
CP_REG_TYPE_BASE == 12800

block_load_store_e ==
    [ NOT_BLK_LOAD_STORE |-> 0,
      STRM_DEC_AFT |-> STR_BLK_TYPE_BASE,
      STRM_DEC_BEF |-> STR_BLK_TYPE_BASE + 1,
      STRM_INC_AFT |-> STR_BLK_TYPE_BASE + 2,
      STRM_INC_BEF |-> STR_BLK_TYPE_BASE + 3,
      STRM_USR_REG |-> STR_BLK_TYPE_BASE + 4,
      PUSH_MULT    |-> STR_BLK_TYPE_BASE + 5,
      LDM_DEC_AFT  |-> LD_TYPE_BASE,
      LDM_DEC_BEF  |-> LD_TYPE_BASE + 1,
      LDM_INC_AFT  |-> LD_TYPE_BASE + 2,
      LDM_INC_BEF  |-> LD_TYPE_BASE + 3,
      LDM_USR_REG  |-> LD_TYPE_BASE + 4,
      LDM_EXC_RET  |-> LD_TYPE_BASE + 5,
      POP_MULT     |-> LD_TYPE_BASE + 6 ]

cp_load_store_e ==
    [ NOT_CP_LOAD_STORE |-> 0,
      CP_STR    |-> STR_CP_TYPE_BASE,
      CP_LD_IMM |-> LD_CP_TYPE_BASE,
      CP_LD_LIT |-> LD_CP_TYPE_BASE + 1,
      CP_MCR    |-> CP_REG_TYPE_BASE,
      CP_MRC    |-> CP_REG_TYPE_BASE + 1 ]

\* a field of insn_op_t that nothing has written: the structure is a local
\* of put_cbs_in_tbs without initialiser
Unwritten == -1

\* insn_op_t as put_cbs_in_tbs declares it
NoInsnOp ==
    [ cond |-> Unwritten, Rn |-> Unwritten, Rt |-> Unwritten, Rt2 |-> Unwritten,
      Rm |-> Unwritten, Rd |-> Unwritten, type |-> Unwritten, add |-> Unwritten,
      index |-> Unwritten, wback |-> Unwritten, coproc |-> Unwritten,
      imm |-> Unwritten, kind |-> Unwritten ]

\* load_store_e of arm-disas.h
load_store_e ==
    [ NOT_LOAD_STORE      |-> 0,
      STR_REG_IMM         |-> 1,
      STR_REG             |-> 2,
      STR_REG_UNPRIV      |-> 3,
      STR_REG_IMM_BYTE    |-> 4,
      STR_REG_BYTE        |-> 5,
      STR_REG_BYTE_UNPRIV |-> 6,
      LD_REG_IMM          |-> LD_TYPE_BASE,
      LD_REG_LIT          |-> LD_TYPE_BASE + 1,
      LD_REG              |-> LD_TYPE_BASE + 2,
      LD_REG_UNPRIV       |-> LD_TYPE_BASE + 3,
      LD_REG_IMM_BYTE     |-> LD_TYPE_BASE + 4,
      LD_REG_LIT_BYTE     |-> LD_TYPE_BASE + 5,
      LD_REG_BYTE         |-> LD_TYPE_BASE + 6,
      LD_REG_BYTE_UNPRIV  |-> LD_TYPE_BASE + 7 ]

\* the two switches of decode_load_store: the identifier and the encoding
\* selected from op1 = bits [24:20], Rn and A = bit 25
LoadStoreType(op1, Rn, A) ==
    LET load   == BitAnd(op1, 1) = 1
        byte   == BitAnd(op1, 4) = 4
        unpriv == BitAnd(op1, 18) = 2
        lit    == load /\ Rn = 15
    IN  IF unpriv
          THEN [ ret |-> CASE ~load /\ ~byte -> load_store_e.STR_REG_UNPRIV
                           [] ~load /\ byte  -> load_store_e.STR_REG_BYTE_UNPRIV
                           [] load /\ ~byte  -> load_store_e.LD_REG_UNPRIV
                           [] load /\ byte   -> load_store_e.LD_REG_BYTE_UNPRIV,
                 enc |-> "LDST_UNPRIV" ]
          ELSE IF A # 0
          THEN [ ret |-> CASE ~load /\ ~byte -> load_store_e.STR_REG
                           [] ~load /\ byte  -> load_store_e.STR_REG_BYTE
                           [] load /\ ~byte  -> load_store_e.LD_REG
                           [] load /\ byte   -> load_store_e.LD_REG_BYTE,
                 enc |-> "LDST_REG" ]
          ELSE IF lit
          THEN [ ret |-> IF byte THEN load_store_e.LD_REG_LIT_BYTE
                                 ELSE load_store_e.LD_REG_LIT,
                 enc |-> "LDST_LIT" ]
          ELSE [ ret |-> CASE ~load /\ ~byte -> load_store_e.STR_REG_IMM
                           [] ~load /\ byte  -> load_store_e.STR_REG_IMM_BYTE
                           [] load /\ ~byte  -> load_store_e.LD_REG_IMM
                           [] load /\ byte   -> load_store_e.LD_REG_IMM_BYTE,
                 enc |-> "LDST_IMM" ]

\* decode_load_store: the identifier returned and insn_data afterwards.
\* "uint8_t P = op1 & 0x10; uint8_t index = (P == 0x1);
\*  uint8_t wback = ((P == 0x0) || ((op1 & 0x2) == 0x2));"
decode_load_store(insn_data, insn_bits) ==
    LET op1   == Field(insn_bits, 20, 5)
        Rn    == GET_LDST_RN_BITS(insn_bits)
        A     == Field(insn_bits, 25, 1)
        t     == LoadStoreType(op1, Rn, A)
        P     == BitAnd(op1, 16)
        index == IF P = 1 THEN 1 ELSE 0
        wback == IF P = 0 \/ BitAnd(op1, 2) = 2 THEN 1 ELSE 0
        imm12 == Field(insn_bits, 0, 12)
        imm5  == Field(insn_bits, 7, 5)
        Rm    == Field(insn_bits, 0, 4)
        type  == Field(insn_bits, 5, 2)
        common == [insn_data EXCEPT !.add  = BitAnd(op1, 8),
                                    !.Rt   = GET_LDST_RT_BITS(insn_bits),
                                    !.Rn   = Rn,
                                    !.cond = GET_LDST_COND(insn_bits),
                                    !.kind = t.ret]
    IN  [ ret  |-> t.ret,
          data |-> CASE t.enc = "LDST_UNPRIV" ->
                          IF A # 0
                            THEN [common EXCEPT !.imm = imm5, !.Rm = Rm, !.type = type]
                            ELSE [common EXCEPT !.imm = imm12]
                     [] t.enc = "LDST_REG" ->
                          [common EXCEPT !.imm = imm5, !.Rm = Rm, !.type = type,
                                         !.index = index, !.wback = wback]
                     [] t.enc = "LDST_IMM" ->
                          [common EXCEPT !.imm = imm12,
                                         !.index = index, !.wback = wback]
                     [] t.enc = "LDST_LIT" ->
                          [common EXCEPT !.imm = imm12] ]

INSN_IS_BLOCK_LOAD_STORE(insn) ==
    IF BitAnd(GET_INSN_OP1_BITS(insn), 6) = 4 THEN 1 ELSE 0

\* BlockType without the test of Rn for the stack pointer: a variant in which
\* LDMIA sp! is not told apart from the other increment-after loads
BlockType_NoPop(op, Rn, R) ==
    CASE op \in {0, 2}   -> block_load_store_e.STRM_DEC_AFT
      [] op \in {1, 3}   -> block_load_store_e.LDM_DEC_AFT
      [] op \in {8, 10}  -> block_load_store_e.STRM_INC_AFT
      [] op \in {9, 11}  -> block_load_store_e.LDM_INC_AFT
      [] op = 16         -> block_load_store_e.STRM_DEC_BEF
      [] op = 18         -> IF Rn = 13 THEN block_load_store_e.PUSH_MULT
                                       ELSE block_load_store_e.STRM_DEC_BEF
      [] op \in {17, 19} -> block_load_store_e.LDM_DEC_BEF
      [] op \in {24, 26} -> block_load_store_e.STRM_INC_BEF
      [] op \in {25, 27} -> block_load_store_e.LDM_INC_BEF
      [] OTHER ->
            IF BitAnd(op, 5) = 4
              THEN block_load_store_e.STRM_USR_REG
              ELSE IF BitAnd(op, 5) = 5
                     THEN IF R # 0 THEN block_load_store_e.LDM_EXC_RET
                                   ELSE block_load_store_e.LDM_USR_REG
                     ELSE block_load_store_e.NOT_BLK_LOAD_STORE

\* the identifier decode_block_load_store selects from op = bits [25:20],
\* Rn and the R bit
BlockType(op, Rn, R) ==
    CASE op \in {0, 2}   -> block_load_store_e.STRM_DEC_AFT
      [] op \in {1, 3}   -> block_load_store_e.LDM_DEC_AFT
      [] op \in {8, 10}  -> block_load_store_e.STRM_INC_AFT
      [] op = 9          -> block_load_store_e.LDM_INC_AFT
      [] op = 11         -> IF Rn = 13 THEN block_load_store_e.POP_MULT
                                       ELSE block_load_store_e.LDM_INC_AFT
      [] op = 16         -> block_load_store_e.STRM_DEC_BEF
      [] op = 18         -> IF Rn = 13 THEN block_load_store_e.PUSH_MULT
                                       ELSE block_load_store_e.STRM_DEC_BEF
      [] op \in {17, 19} -> block_load_store_e.LDM_DEC_BEF
      [] op \in {24, 26} -> block_load_store_e.STRM_INC_BEF
      [] op \in {25, 27} -> block_load_store_e.LDM_INC_BEF
      [] OTHER ->
            IF BitAnd(op, 5) = 4
              THEN block_load_store_e.STRM_USR_REG
              ELSE IF BitAnd(op, 5) = 5
                     THEN IF R # 0 THEN block_load_store_e.LDM_EXC_RET
                                   ELSE block_load_store_e.LDM_USR_REG
                     ELSE block_load_store_e.NOT_BLK_LOAD_STORE

\* decode_block_load_store: the identifier returned and insn_data afterwards;
\* "uint8_t op" keeps the low eight bits of the six-bit field
decode_block_load_store(insn_data, insn_bits) ==
    LET op  == GET_LDSTM_OP_BITS(insn_bits)
        Rn  == GET_LDSTM_RN_BITS(insn_bits)
        returnVal == BlockType(op, Rn, GET_LDSTM_R_BIT(insn_bits))
        exc_flag  == returnVal \in { block_load_store_e.STRM_USR_REG,
                                     block_load_store_e.LDM_EXC_RET,
                                     block_load_store_e.LDM_USR_REG }
    IN  IF returnVal = 0
          THEN [ret |-> returnVal, data |-> insn_data]
          ELSE [ret  |-> returnVal,
                data |-> [insn_data EXCEPT
                            !.wback = IF BitAnd(op, 2) = 2 THEN 1 ELSE 0,
                            !.Rn    = Rn,
                            !.imm   = GET_LDSTM_REGLIST(insn_bits),
                            !.cond  = GET_LDST_COND(insn_bits),
                            !.kind  = returnVal,
                            !.type  = IF exc_flag THEN op ELSE @]]

\* INSN_IS_COPROC_LOAD_STORE, the coprocessor load/store rows of table A5-22
INSN_IS_COPROC_LOAD_STORE(insn_data, insn) ==
    LET arm_op1  == BitAnd(GET_INSN_OP1_BITS(insn), 6)
        op1_bits == BitAnd(GET_COPROC_OP1_BITS(insn), 59)
        cp_bits  == BitAnd(GET_COPROC_CP_BITS(insn), 14)
        returnVal ==
            IF arm_op1 = 6 /\ cp_bits # 10 /\ op1_bits # 0
              THEN IF op1_bits % 2 = 1
                     THEN IF op1_bits > 1
                            THEN IF GET_COPROC_RN_BITS(insn) = 15
                                   THEN cp_load_store_e.CP_LD_LIT
                                   ELSE cp_load_store_e.CP_LD_IMM
                            ELSE cp_load_store_e.NOT_CP_LOAD_STORE
                     ELSE cp_load_store_e.CP_STR
              ELSE cp_load_store_e.NOT_CP_LOAD_STORE
    IN  IF returnVal = 0
          THEN [ret |-> returnVal, data |-> insn_data]
          ELSE [ret  |-> returnVal,
                data |-> [insn_data EXCEPT
                            !.Rn     = GET_LDST_RN_BITS(insn),
                            !.imm    = GET_COPROC_IMM8_BITS(insn),
                            !.Rd     = GET_COPROC_RD_BITS(insn),
                            !.cond   = GET_LDST_COND(insn),
                            !.coproc = cp_bits,
                            !.index  = 0,
                            !.wback  = 1,
                            !.kind   = returnVal]]

\* the register-transfer rows of table A5-22 (MCR, MRC): op1 is 10xxx0 or
\* 10xxx1 with bit 4 set and the coprocessor is not the floating-point one;
\* captures coproc, opc1 (type), CRn (Rn), CRm (Rm), opc2 (Rt2) and Rt
INSN_IS_COPROC_REG_TRANSFER(insn_data, insn) ==
    LET arm_op1 == BitAnd(GET_INSN_OP1_BITS(insn), 6)
        cp_bits == BitAnd(GET_COPROC_CP_BITS(insn), 14)
        returnVal ==
            IF /\ arm_op1 = 6
               /\ cp_bits # 10
               /\ Field(insn, 24, 2) = 2
               /\ GET_INSN_OP_BIT(insn) = 1
              THEN IF Field(insn, 20, 1) = 0 THEN cp_load_store_e.CP_MCR
                                             ELSE cp_load_store_e.CP_MRC
              ELSE cp_load_store_e.NOT_CP_LOAD_STORE
    IN  IF returnVal = 0
          THEN [ret |-> returnVal, data |-> insn_data]
          ELSE [ret  |-> returnVal,
                data |-> [insn_data EXCEPT
                            !.coproc = cp_bits,
                            !.type   = Field(insn, 21, 3),
                            !.Rn     = GET_COPROC_RN_BITS(insn),
                            !.Rm     = Field(insn, 0, 4),
                            !.Rt2    = Field(insn, 5, 3),
                            !.Rt     = GET_LDST_RT_BITS(insn),
                            !.cond   = GET_LDST_COND(insn),
                            !.kind   = returnVal]]

\* the coprocessor decode put_cbs_in_tbs calls: register transfers first,
\* then the load/store rows
DecodeCoproc(insn_data, insn) ==
    LET r == INSN_IS_COPROC_REG_TRANSFER(insn_data, insn)
    IN  IF r.ret # 0 THEN r ELSE INSN_IS_COPROC_LOAD_STORE(insn_data, insn)

\* dcache_is_cache_inst: the decoded MCR is DCISW
dcache_is_cache_inst(insn_op_data) ==
    /\ insn_op_data.coproc = 14
    /\ insn_op_data.type = 0
    /\ insn_op_data.Rn = 7
    /\ insn_op_data.Rm = 6
    /\ insn_op_data.Rt2 = 2

\* a variant of icache_is_cache_inst that looks for CRm 6
icache_is_cache_inst_WrongCRm(insn_op_data) ==
    /\ insn_op_data.coproc = 14
    /\ insn_op_data.type = 0
    /\ insn_op_data.Rn = 7
    /\ insn_op_data.Rm = 6
    /\ insn_op_data.Rt2 = 0

\* icache_is_cache_inst: the decoded MCR is ICIALLU
icache_is_cache_inst(insn_op_data) ==
    /\ insn_op_data.coproc = 14
    /\ insn_op_data.type = 0
    /\ insn_op_data.Rn = 7
    /\ insn_op_data.Rm = 5
    /\ insn_op_data.Rt2 = 0

\* get_insn_bits: the bytes of the instruction, least significant first, as
\* one word; an instruction shorter than a word leaves the upper bytes zero
get_insn_bits(data) ==
    [i \in 1 .. 4 |-> IF i <= Len(data) THEN data[i] ELSE 0]

INSN_IS_LOAD_STORE(insn) ==
    IF \/ GET_INSN_OP1_BITS(insn) = 2
       \/ (GET_INSN_OP1_BITS(insn) = 3 /\ GET_INSN_OP_BIT(insn) = 0)
      THEN 1 ELSE 0

MISC_IS_EXTRA_LDST == 1
MISC_IS_EXTRA_LDST_UNPRIV == 2
MISC_IS_SYNC_PRIMITIVE == 3

INSN_IS_EXTRA_LOAD_STORE(insn) ==
    LET op_bit     == Field(insn, 25, 1)
        op1_bits   == Field(insn, 20, 5)
        op2_bits   == Field(insn, 4, 4)
        op1_mask_1 == BitAnd(op1_bits, 18)
        op2_mask_1 == BitAnd(op2_bits, 13)
        op1_mask_2 == BitAnd(op1_bits, 19)
        op1_mask_3 == BitAnd(op1_bits, 16)
    IN  IF GET_INSN_OP1_BITS(insn) > 1 THEN 0
        ELSE IF op_bit # 0 THEN 0
        ELSE IF op1_mask_1 # 2 /\ (op2_bits = 11 \/ op2_mask_1 = 13)
               THEN MISC_IS_EXTRA_LDST
        ELSE IF op1_mask_2 = 2 /\ op2_mask_1 = 13 THEN MISC_IS_EXTRA_LDST
        ELSE IF op1_mask_1 = 2 /\ op2_bits = 11 THEN MISC_IS_EXTRA_LDST_UNPRIV
        ELSE IF op1_mask_2 = 3 /\ op2_mask_1 = 13 THEN MISC_IS_EXTRA_LDST_UNPRIV
        ELSE IF op1_mask_3 = 16 /\ op2_bits = 9 THEN MISC_IS_SYNC_PRIMITIVE
        ELSE 0

STR_SYNC_TYPE_BASE == 16385
LD_SYNC_TYPE_BASE == 16640
SWP_SYNC_TYPE_BASE == 16896

sync_load_store_e ==
    [NOT_SYNC_LOAD_STORE |-> 0,
     STR_EXCL      |-> STR_SYNC_TYPE_BASE,
     STR_EXCL_DW   |-> STR_SYNC_TYPE_BASE + 1,
     STR_EXCL_BYTE |-> STR_SYNC_TYPE_BASE + 2,
     STR_EXCL_HALF |-> STR_SYNC_TYPE_BASE + 3,
     LD_EXCL       |-> LD_SYNC_TYPE_BASE,
     LD_EXCL_DW    |-> LD_SYNC_TYPE_BASE + 1,
     LD_EXCL_BYTE  |-> LD_SYNC_TYPE_BASE + 2,
     LD_EXCL_HALF  |-> LD_SYNC_TYPE_BASE + 3,
     SWAP_WORD     |-> SWP_SYNC_TYPE_BASE,
     SWAP_BYTE     |-> SWP_SYNC_TYPE_BASE + 1]

decode_sync_load_store(insn_data, insn) ==
    LET op_bits == Field(insn, 20, 4)
        e == sync_load_store_e
        returnVal ==
            CASE op_bits = 0  -> e.SWAP_WORD
              [] op_bits = 4  -> e.SWAP_BYTE
              [] op_bits = 8  -> e.STR_EXCL
              [] op_bits = 9  -> e.LD_EXCL
              [] op_bits = 10 -> e.STR_EXCL_DW
              [] op_bits = 11 -> e.LD_EXCL_DW
              [] op_bits = 12 -> e.STR_EXCL_BYTE
              [] op_bits = 13 -> e.LD_EXCL_BYTE
              [] op_bits = 14 -> e.STR_EXCL_HALF
              [] op_bits = 15 -> e.LD_EXCL_HALF
              [] OTHER        -> e.NOT_SYNC_LOAD_STORE
        common == [insn_data EXCEPT !.Rn = GET_LDST_RN_BITS(insn),
                                    !.cond = GET_LDST_COND(insn)]
    IN  [ret  |-> returnVal,
         data |-> IF returnVal >= e.SWAP_WORD
                    THEN [common EXCEPT !.Rt = GET_LDST_RT_BITS(insn),
                                        !.Rt2 = Field(insn, 0, 4)]
                    ELSE IF returnVal < LD_SYNC_TYPE_BASE
                      THEN [common EXCEPT !.Rt = Field(insn, 0, 4),
                                          !.Rd = GET_LDST_RT_BITS(insn)]
                      ELSE [common EXCEPT !.Rt = GET_LDST_RT_BITS(insn)]]

(***************************************************************************)
(* State.                                                                  *)
(***************************************************************************)
VARIABLES
    \* CacheSpec: one engine instance and the record of the calls made on it
    cache,          \* the cache_t under test
    calls,          \* calls made so far: all, loads, stores (ever and while the
                    \* cache was live), store misses under write-allocate
    lastOp,         \* the last call: its kind, address and result
    \* Spec: the plugin's globals
    icache, dcache, l2cache,        \* static cache_t of icache.c, dcache.c, l2cache.c
    l2ops,          \* calls of l2cache_load and of l2cache_store made so far
    insn_count, load_count, store_count, cp_count, tb_count,
    textBegin, textEnd,             \* the .text range given to the plugin
    plan,           \* injection_plan_t plan
    faultDone, doInject,
    mainBegin, otherCycle, otherCycleSkip, otherCycleCount,
    sent,           \* what sockets_send has sent, in order
    recvd,          \* what sockets_recv has been asked for, in order
    outs,           \* the ERROR lines handed to qemu_plugin_outs
    pc,             \* where the process is: "run", "exited" or "crashed"
    cbs,            \* the callbacks registered so far, each with its instruction
    translated      \* DecodeSpec: the instruction under translation and what
                    \* the decoder made of it

engineVars == <<cache, calls, lastOp>>
driverVars == <<icache, dcache, l2cache, l2ops, insn_count, load_count, store_count,
                cp_count, tb_count, textBegin, textEnd, plan, faultDone,
                doInject, mainBegin, otherCycle, otherCycleSkip, otherCycleCount, sent, recvd,
          outs, pc>>
decodeVars == <<cbs, translated>>
vars == <<cache, calls, lastOp, icache, dcache, l2cache, l2ops, insn_count, load_count,
          store_count, cp_count, tb_count, textBegin, textEnd, plan, faultDone,
          doInject, mainBegin, otherCycle, otherCycleSkip, otherCycleCount, sent, recvd,
          outs, pc, cbs, translated>>

cache_name_e == {"ICACHE", "DCACHE", "L2CACHE"}

\* injection_plan_t in static storage: all bytes zero (ICACHE is enumerator 0)
ZeroPlan ==
    [sleepCycles |-> 0, cacheRow |-> 0, cacheSet |-> 0, cacheWord |-> 0,
     cacheName |-> "ICACHE"]

\* a guest instruction: where it lies and its bytes, least significant first
GuestInsn(vaddr, data) == [vaddr |-> vaddr, data |-> data]

\* nothing under translation
NoTranslation ==
    [insn |-> GuestInsn(0, <<>>), decoder |-> "none", ret |-> 0, data |-> NoInsnOp]

\* the plugin's globals before qemu_plugin_install
DriverZero ==
    /\ icache = ZeroCache
    /\ dcache = ZeroCache
    /\ l2cache = ZeroCache
    /\ l2ops = [loads |-> 0, stores |-> 0]
    /\ insn_count = 0
    /\ load_count = 0
    /\ store_count = 0
    /\ cp_count = 0
    /\ tb_count = 0
    /\ textBegin = 0
    /\ textEnd = 0
    /\ plan = ZeroPlan
    /\ faultDone = 0
    /\ doInject = 0
    /\ mainBegin = 0
    /\ otherCycle = 0
    /\ otherCycleSkip = 0
    /\ otherCycleCount = 0
    /\ sent = <<>>
    /\ recvd = <<>>
    /\ outs = <<>>
    /\ pc = "run"
    /\ cbs = {}
    /\ translated = NoTranslation

(***************************************************************************)
(* CacheSpec: the engine driven through its API.                           *)
(***************************************************************************)

\* the (cacheSize, associativity, blockSize) the engine is constructed with
EngineGeometries ==
    { [cacheSize |-> 4, associativity |-> 2, blockSize |-> 1],
      [cacheSize |-> 2, associativity |-> 1, blockSize |-> 2],
      [cacheSize |-> 8, associativity |-> 1, blockSize |-> 8] }

NoOp == [op |-> "init", vaddr |-> 0, result |-> CACHE_RESULT_MISS,
         live |-> FALSE, again |-> FALSE, row |-> 0, block |-> 0]

\* the addresses presented to a cache: those whose tag is at most MaxTag
GuestAddrs(cp) == {a \in Addrs : TagBitsOf(cp, a) <= MaxTag}

\* the indices invalidate is called with: those of the table and one past
InvalidateRows(cp) == 0 .. cp.rows
InvalidateWays(cp) == 0 .. cp.associativity

\* every entry of a live cache is invalid
AllInvalid(cp) ==
    /\ cp.validFlag # 0
    /\ \A r \in Rows(cp), w \in Ways(cp) : cp.table[r][w].dirty # CACHE_NOT_DIRTY

\* the record of the loads made since the cache was last seen with every
\* entry invalid: whether only loads of distinct tags were made, no row
\* receiving more of them than it has ways; the (row, tag) loaded; and the
\* counters as they were when the loads began
NoRun == [ok |-> FALSE, blocks |-> {}, load_misses |-> 0, compulsory |-> 0,
          evictions |-> 0]

StartRun(cp) ==
    IF AllInvalid(cp)
      THEN [ok |-> TRUE, blocks |-> {}, load_misses |-> cp.load_misses,
            compulsory |-> cp.miss_type_counts.compulsory,
            evictions |-> cp.miss_type_counts.evictions]
      ELSE NoRun

ExtendRun(run, cp, vaddr) ==
    IF /\ run.ok
       /\ cp.validFlag # 0
       /\ \A b \in run.blocks : b[2] # TagBitsOf(cp, vaddr)
       /\ Cardinality({b \in run.blocks : b[1] = RowIdxOf(cp, vaddr)}) < cp.associativity
      THEN [run EXCEPT !.blocks = @ \cup {<<RowIdxOf(cp, vaddr), TagBitsOf(cp, vaddr)>>}]
      ELSE NoRun

CacheInit ==
    /\ \E g \in EngineGeometries,
          rp \in {POLICY_ROUND_ROBIN, POLICY_RANDOM},
          ap \in {POLICY_WRITE_ALLOCATE, POLICY_NO_WRITE_ALLOCATE} :
         cache = init_cache_struct(ZeroCache, g.cacheSize, g.associativity,
                                   g.blockSize, rp, ap)
    /\ calls = [ops |-> 0, loads |-> 0, liveLoads |-> 0, stores |-> 0,
                liveStores |-> 0, waStoreMisses |-> 0, run |-> StartRun(cache)]
    /\ lastOp = NoOp
    /\ DriverZero

\* cache_load_common(&cache, vaddr)
Load(vaddr) ==
    /\ pc = "run"
    /\ calls.ops < MaxOps
    /\ LET r == cache_load_common(cache, vaddr)
       IN  /\ cache' = r.cp
           /\ lastOp' = [op |-> "load", vaddr |-> vaddr,
                         result |-> r.result, live |-> cache.validFlag # 0,
                         again |-> /\ lastOp.op = "load"
                                   /\ lastOp.vaddr = vaddr
                                   /\ lastOp.live,
                         row |-> 0, block |-> 0]
    /\ calls' = [calls EXCEPT
                   !.ops = @ + 1,
                   !.loads = @ + 1,
                   !.liveLoads = IF cache.validFlag # 0 THEN @ + 1 ELSE @,
                   !.run = ExtendRun(@, cache, vaddr)]
    /\ UNCHANGED <<driverVars, decodeVars>>

\* cache_store_common(&cache, vaddr)
Store(vaddr) ==
    /\ pc = "run"
    /\ calls.ops < MaxOps
    /\ LET r == cache_store_common(cache, vaddr)
       IN  /\ cache' = r.cp
           /\ lastOp' = [op |-> "store", vaddr |-> vaddr,
                         result |-> r.result, live |-> cache.validFlag # 0,
                         again |-> FALSE, row |-> 0, block |-> 0]
           /\ calls' = [calls EXCEPT
                          !.ops = @ + 1,
                          !.stores = @ + 1,
                          !.liveStores = IF cache.validFlag # 0 THEN @ + 1 ELSE @,
                          !.waStoreMisses =
                              IF /\ cache.validFlag # 0
                                 /\ cache.alloc_policy = POLICY_WRITE_ALLOCATE
                                 /\ r.result = CACHE_RESULT_MISS
                                THEN @ + 1 ELSE @,
                          !.run = StartRun(r.cp)]
    /\ UNCHANGED <<driverVars, decodeVars>>

\* cache_invalidate_block_common(&cache, row, block)
InvalidateBlock(row, block) ==
    /\ pc = "run"
    /\ calls.ops < MaxOps
    /\ \E o \in InvalidateOutcomes(cache, row, block) :
          /\ cache' = o.cp
          /\ pc' = o.pc
    /\ lastOp' = [op |-> "invalidate", vaddr |-> 0,
                  result |-> CACHE_RESULT_MISS, live |-> cache.validFlag # 0,
                  again |-> FALSE, row |-> row, block |-> block]
    /\ calls' = [calls EXCEPT !.ops = @ + 1, !.run = StartRun(cache')]
    /\ UNCHANGED <<icache, dcache, l2cache, l2ops, insn_count, load_count, store_count,
                   cp_count, tb_count, textBegin, textEnd, plan, faultDone,
                   doInject, mainBegin, otherCycle, otherCycleSkip, otherCycleCount,
                   sent, recvd, outs>>
    /\ UNCHANGED decodeVars

\* free_cache_struct(&cache): the at-exit teardown, run once
Free ==
    /\ pc = "run"
    /\ calls.ops < MaxOps
    /\ ~cache.freed
    /\ cache' = free_cache_struct(cache)
    /\ lastOp' = [op |-> "free", vaddr |-> 0,
                  result |-> CACHE_RESULT_MISS, live |-> cache.validFlag # 0,
                  again |-> FALSE, row |-> 0, block |-> 0]
    /\ calls' = [calls EXCEPT !.ops = @ + 1, !.run = NoRun]
    /\ UNCHANGED <<driverVars, decodeVars>>

CacheNext ==
    \/ \E vaddr \in GuestAddrs(cache) : Load(vaddr)
    \/ \E vaddr \in GuestAddrs(cache) : Store(vaddr)
    \/ \E row \in InvalidateRows(cache), block \in InvalidateWays(cache) :
          InvalidateBlock(row, block)
    \/ Free

CacheSpec == CacheInit /\ [][CacheNext]_vars


(***************************************************************************)
(* The three singletons (icache.c, dcache.c, l2cache.c).  A hierarchy h is *)
(* the record of the three static cache_t.                                 *)
(***************************************************************************)
\* sizeof(arch_word_t)
SizeofWord == 4

\* ICACHE_*, DCACHE_*, L2CACHE_* defaults, sizes scaled to the model's word
IcacheDefaults ==
    [cacheSize |-> 2, associativity |-> 1, blockSize |-> 1,
     replace_policy |-> POLICY_RANDOM, alloc_policy |-> POLICY_NO_WRITE_ALLOCATE]
DcacheDefaults ==
    [cacheSize |-> 2, associativity |-> 1, blockSize |-> 1,
     replace_policy |-> POLICY_RANDOM, alloc_policy |-> POLICY_NO_WRITE_ALLOCATE]
L2cacheDefaults ==
    [cacheSize |-> 4, associativity |-> 2, blockSize |-> 1,
     replace_policy |-> POLICY_ROUND_ROBIN, alloc_policy |-> POLICY_WRITE_ALLOCATE]

\* icache_init / dcache_init / l2cache_init
cache_init(cp, d) ==
    init_cache_struct(cp, d.cacheSize, d.associativity, d.blockSize,
                      d.replace_policy, d.alloc_policy)

l2cache_load(h, vaddr) ==
    [h EXCEPT !.l2cache = cache_load_common(h.l2cache, vaddr).cp,
              !.l2ops.loads = @ + 1]

l2cache_store(h, vaddr) ==
    [h EXCEPT !.l2cache = cache_store_common(h.l2cache, vaddr).cp,
              !.l2ops.stores = @ + 1]

\* a variant of icache_load that calls the L2 cache on a hit as well
icache_load_AlwaysForward(h, vaddr) ==
    l2cache_load([h EXCEPT !.icache = cache_load_common(h.icache, vaddr).cp], vaddr)

icache_load(h, vaddr) ==
    LET r  == cache_load_common(h.icache, vaddr)
        h1 == [h EXCEPT !.icache = r.cp]
    IN  IF r.result = CACHE_RESULT_MISS THEN l2cache_load(h1, vaddr) ELSE h1

dcache_load(h, vaddr) ==
    LET r  == cache_load_common(h.dcache, vaddr)
        h1 == [h EXCEPT !.dcache = r.cp]
    IN  IF r.result = CACHE_RESULT_MISS THEN l2cache_load(h1, vaddr) ELSE h1

\* a variant of dcache_store that writes through to the L2 cache without
\* looking the address up in the D-cache
dcache_store_WriteAround(h, vaddr) == l2cache_store(h, vaddr)

dcache_store(h, vaddr) ==
    LET r  == cache_store_common(h.dcache, vaddr)
        h1 == [h EXCEPT !.dcache = r.cp]
    IN  IF r.result = CACHE_RESULT_MISS THEN l2cache_store(h1, vaddr) ELSE h1

\* every outcome of dcache_invalidate_block: the hierarchy and whether the
\* process goes on
dcache_invalidate_block(h, row, block) ==
    { [h |-> [h EXCEPT !.dcache = o.cp], pc |-> o.pc] :
        o \in InvalidateOutcomes(h.dcache, row, block) }

\* a variant of icache_invalidate_all whose loop stops before row 0
icache_invalidate_all_RowZeroKept(h) ==
    [h EXCEPT !.icache =
        IF @.validFlag = 0 THEN @
        ELSE [@ EXCEPT !.table =
                [r \in Rows(h.icache) |->
                    [w \in Ways(h.icache) |->
                        IF r = 0 THEN h.icache.table[r][w]
                        ELSE [h.icache.table[r][w] EXCEPT !.dirty = CACHE_DIRTY]]]]]

\* every (row, way) of the I-cache invalidated, one block at a time
icache_invalidate_all(h) ==
    [h EXCEPT !.icache =
        IF @.validFlag = 0 THEN @
        ELSE [@ EXCEPT !.table =
                [r \in Rows(h.icache) |->
                    [w \in Ways(h.icache) |->
                        [h.icache.table[r][w] EXCEPT !.dirty = CACHE_DIRTY]]]]]

\* the singleton a cache_name_e value selects
CacheOf(h, name) ==
    CASE name = "ICACHE"  -> h.icache
      [] name = "DCACHE"  -> h.dcache
      [] name = "L2CACHE" -> h.l2cache

(***************************************************************************)
(* Injection support of the engine.  Reading table[row][block] outside the *)
(* table is undefined: the read yields some value, or the process faults.  *)
(***************************************************************************)
InTable(cp, row, block) == row \in Rows(cp) /\ block \in Ways(cp)

\* a variant of cache_get_addr_common that leaves the row bits out
cache_get_addr_common_TagOnly(cp, cacheRow, cacheSet) ==
    IF cp.validFlag = 0
      THEN 0
      ELSE Shl(cp.table[cacheRow][cacheSet].tag, cp.maskInfo.tagShift)

\* (tag << tagShift) | (cacheRow << rowShift), as arch_word_t
cache_get_addr_common(cp, cacheRow, cacheSet) ==
    IF cp.validFlag = 0
      THEN 0
      ELSE BitOr(Shl(cp.table[cacheRow][cacheSet].tag, cp.maskInfo.tagShift),
                 Shl(cacheRow, cp.maskInfo.rowShift))

\* 0 valid parameters, -1 invalid parameters, -2 invalid cache struct
cache_validate_injection_common(cp, pl) ==
    IF cp.validFlag = 0
      THEN -2
      ELSE IF \/ pl.cacheRow > cp.rows - 1
              \/ pl.cacheSet > cp.associativity - 1
              \/ pl.cacheWord > (cp.blockSize * SizeofWord) - 1
             THEN -1
             ELSE 0

\* what cache_block_valid_common can return
BlockValidOutcomes(cp, row, block) ==
    IF cp.validFlag = 0 \/ InTable(cp, row, block)
      THEN {cache_block_valid_common(cp, row, block)}
      ELSE {0, 1}

\* what cache_get_addr_common can return
GetAddrOutcomes(cp, cacheRow, cacheSet) ==
    IF cp.validFlag = 0 \/ InTable(cp, cacheRow, cacheSet)
      THEN {cache_get_addr_common(cp, cacheRow, cacheSet)}
      ELSE {0, WordMod - 1}

\* whether the access can fault
MayFault(cp, row, block) == cp.validFlag # 0 /\ ~InTable(cp, row, block)

(***************************************************************************)
(* The fault injector (fault-inject.c).                                    *)
(***************************************************************************)
\* the strings the collaborator may send as cache name
CacheNameInputs == {"icache", "dcache", "l2cache"}

\* what the collaborator may send as row, set, cache name and word
InjectionInputs ==
    [row : {0, 2}, set : {0, 1}, name : CacheNameInputs, word : {1, 4}]

\* a message handed to sockets_send: the printf format and the value printed
Msg(fmt, val) == [fmt |-> fmt, val |-> val]

\* get_socket_args: row, set and cache name are received into the plan
get_socket_args(pl, in) ==
    [ plan |-> [pl EXCEPT !.cacheRow = in.row,
                          !.cacheSet = in.set,
                          !.cacheName = CASE in.name = "icache"  -> "ICACHE"
                                          [] in.name = "dcache"  -> "DCACHE"
                                          [] in.name = "l2cache" -> "L2CACHE"
                                          [] OTHER -> @],
      outs |-> IF in.name \in {"icache", "dcache", "l2cache"}
                 THEN <<>>
                 ELSE <<"ERROR: Invalid cache name!">> ]

\* receive_injection_info: the plan is validated with the word it held before,
\* the validity of the block is sent, then the word is received
receive_injection_info(h, pl, in) ==
    LET a       == get_socket_args(pl, in)
        cp      == CacheOf(h, a.plan.cacheName)
        invalid == cache_validate_injection_common(cp, a.plan)
        outs1   == a.outs \o (IF invalid # 0
                                THEN <<"ERROR: Invalid injection parameters!">>
                                ELSE <<>>)
    IN  { [ plan |-> [a.plan EXCEPT !.cacheWord = in.word],
            outs |-> outs1,
            sent |-> <<Msg("%hhu\n", valid)>> ] :
          valid \in BlockValidOutcomes(cp, a.plan.cacheRow, a.plan.cacheSet) }

\* variants of ShouldInject: one that waits for the count to pass the sleep,
\* one that ignores faultDone
ShouldInject_Strict(fd, count, sleepCycles) == fd = 0 /\ count > sleepCycles
ShouldInject_Always(fd, count, sleepCycles) == count >= sleepCycles

\* the condition of check_insn_count:
\* "(!faultDone) && (insn_count >= plan.sleepCycles)"
ShouldInject(fd, count, sleepCycles) == fd = 0 /\ count >= sleepCycles

\* faultDone after check_insn_count has decided to inject
FaultDoneOnFiring(fd) == 1

\* a variant of TargetAddr that leaves the word offset out
TargetAddr_BlockBase(addr, cacheWord) == addr

\* "uint32_t byteNum = plan.cacheWord * sizeof(arch_word_t); addr += byteNum;"
TargetAddr(addr, cacheWord) ==
    (addr + ((cacheWord * SizeofWord) % WordMod)) % WordMod

\* the plan, flag and output of check_insn_count when it injects with input in
Inject(h, fd, count, pl, in) ==
    LET a  == get_socket_args(pl, in)
        cp == CacheOf(h, a.plan.cacheName)
    IN  { [ faultDone |-> FaultDoneOnFiring(fd),
            plan  |-> r.plan,
            outs  |-> r.outs,
            sent  |-> r.sent \o
                      << Msg("0x%08lX", count),
                         Msg("0x%08X", TargetAddr(addr, r.plan.cacheWord)) >>,
            recvd |-> <<"cacheRow", "cacheSet", "cacheName", "cacheWord">>,
            pc    |-> "run" ] :
          r \in receive_injection_info(h, pl, in),
          addr \in GetAddrOutcomes(cp, a.plan.cacheRow, a.plan.cacheSet) }
        \cup
        { [ faultDone |-> FaultDoneOnFiring(fd),
            plan  |-> a.plan,
            outs  |-> r.outs,
            sent  |-> <<>>,
            recvd |-> <<"cacheRow", "cacheSet", "cacheName">>,
            pc    |-> "crashed" ] :
          r \in { x \in receive_injection_info(h, pl, in) :
                    MayFault(cp, a.plan.cacheRow, a.plan.cacheSet) } }

\* check_insn_count: every outcome it can have
check_insn_count(h, fd, count, pl) ==
    IF ShouldInject(fd, count, pl.sleepCycles)
      THEN UNION { Inject(h, fd, count, pl, in) : in \in InjectionInputs }
      ELSE { [ faultDone |-> fd, plan |-> pl, outs |-> <<>>, sent |-> <<>>,
               recvd |-> <<>>, pc |-> "run" ] }

(***************************************************************************)
(* Spec: the plugin.  Init is the state qemu_plugin_install leaves.        *)
(***************************************************************************)
\* the largest uint64_t, a type twice as wide as arch_word_t
UINT64_MAX == (WordMod * WordMod) - 1

\* the .text ranges the plugin may be given (argv[0], argv[1])
TextRanges == { [begin |-> 0, end |-> 2] }

\* what the collaborator may send for the first translation block
SleepCyclesInputs == {0, 2}
MainBeginInputs == {0, 1}
OtherCycleInputs == {1}
OtherCycleSkipInputs == {1, 2}

\* the loads and the stores a cache has counted
LoadOps(cp) == cp.load_hits + cp.load_misses
StoreOps(cp) == cp.store_hits + cp.store_misses

Hier == [icache |-> icache, dcache |-> dcache, l2cache |-> l2cache, l2ops |-> l2ops]

\* the addresses the guest executes at and accesses
DriverAddrs == 0 .. 3

\* a variant of the .text test that takes textEnd as the last address of .text
InText_EndInclusive(addr) == addr <= textEnd /\ addr >= textBegin

InText(addr) == addr < textEnd /\ addr >= textBegin

\* the guest's instructions: ICIALLU "mcr p15, 0, r0, c7, c5, 0", DCISW
\* "mcr p15, 0, r11, c7, c6, 2", a load "ldr r0, [r1]", a 16-bit Thumb "bx lr"
ICIALLU_WORD == <<21, 15, 7, 238>>
DCISW_WORD == <<86, 191, 7, 238>>
LDR_WORD == <<0, 0, 145, 229>>
THUMB_HALFWORD == <<112, 71>>

\* the translation blocks of the guest: one of .text followed by code outside
\* it, and one wholly outside .text
TranslationBlocks ==
    { << GuestInsn(0, ICIALLU_WORD), GuestInsn(1, DCISW_WORD),
         GuestInsn(2, LDR_WORD), GuestInsn(3, THUMB_HALFWORD) >>,
      << GuestInsn(2, LDR_WORD), GuestInsn(3, THUMB_HALFWORD) >> }

\* execution callbacks taken so far
Steps == insn_count + load_count + store_count + cp_count

\* the targets QEMU may be built for (info->target_name)
Targets == {"arm", "aarch64"}

\* qemu_plugin_install: a target other than "arm" is refused before anything
\* is set up; otherwise the arguments are taken and the caches initialised
qemu_plugin_install(target) ==
    /\ cache = ZeroCache
    /\ calls = [ops |-> 0, loads |-> 0, liveLoads |-> 0, stores |-> 0,
                liveStores |-> 0, waStoreMisses |-> 0, run |-> NoRun]
    /\ lastOp = NoOp
    /\ IF target # "arm"
         THEN /\ textBegin = 0
              /\ textEnd = 0
              /\ doInject = 0
              /\ faultDone = 0
              /\ icache = ZeroCache
              /\ dcache = ZeroCache
              /\ l2cache = ZeroCache
              /\ outs = <<"ERROR: Architecture not supported!">>
              /\ pc = "refused"
         ELSE /\ \E t \in TextRanges : textBegin = t.begin /\ textEnd = t.end
              /\ doInject \in {0, 1}
              /\ faultDone = IF doInject = 0 THEN 1 ELSE 0
              /\ icache = cache_init(ZeroCache, IcacheDefaults)
              /\ dcache = cache_init(ZeroCache, DcacheDefaults)
              /\ l2cache = cache_init(ZeroCache, L2cacheDefaults)
              /\ outs = <<>>
              /\ pc = "run"
    /\ l2ops = [loads |-> 0, stores |-> 0]
    /\ insn_count = 0
    /\ load_count = 0
    /\ store_count = 0
    /\ cp_count = 0
    /\ tb_count = 0
    /\ plan = ZeroPlan
    /\ mainBegin = 0
    /\ otherCycle = 0
    /\ otherCycleSkip = 0
    /\ otherCycleCount = 0
    /\ sent = <<>>
    /\ recvd = <<>>
    /\ cbs = {}

Init ==
    /\ \E target \in Targets : qemu_plugin_install(target)
    /\ translated = NoTranslation

\* the callbacks the loop of put_cbs_in_tbs registers for one instruction
CallbacksFor(insn) ==
    LET insn_bits == get_insn_bits(insn.data)
        cp        == DecodeCoproc(NoInsnOp, insn_bits)
        Cb(fn)    == [fn |-> fn, insn |-> insn]
    IN  (IF InText(insn.vaddr) THEN {Cb("parse_instruction")} ELSE {})
        \cup {Cb("parse_mem")}
        \cup (IF cp.ret >= CP_REG_TYPE_BASE /\ cp.ret = cp_load_store_e.CP_MCR
               THEN IF dcache_is_cache_inst(cp.data) THEN {Cb("cache_inst")}
                    ELSE IF icache_is_cache_inst(cp.data) THEN {Cb("icache_inst")}
                    ELSE {}
               ELSE {})

\* the callbacks of one kind registered so far
Registered(fn) == {c \in cbs : c.fn = fn}

\* put_cbs_in_tbs: the translation block tb is translated; the first time the
\* collaborator is asked for the sleep cycles or for the address to report;
\* every instruction of tb gets its callbacks
put_cbs_in_tbs(tb) ==
    /\ pc = "run"
    /\ tb_count < MaxTb
    /\ cbs' = cbs \cup UNION {CallbacksFor(tb[i]) : i \in 1 .. Len(tb)}
    /\ tb_count' = tb_count + 1
    /\ IF tb_count = 0
         THEN IF doInject # 0
                THEN /\ \E sc \in SleepCyclesInputs :
                          plan' = [plan EXCEPT !.sleepCycles = sc]
                     /\ recvd' = recvd \o <<"sleepCycles">>
                     /\ UNCHANGED <<mainBegin, otherCycle, otherCycleSkip>>
                ELSE /\ \E mb \in MainBeginInputs :
                          /\ mainBegin' = mb
                          /\ IF mb = 0
                               THEN /\ otherCycle' \in OtherCycleInputs
                                    /\ otherCycleSkip' \in OtherCycleSkipInputs
                                    /\ recvd' = recvd \o <<"mainBegin", "otherCycle",
                                                           "otherCycleSkip">>
                               ELSE /\ UNCHANGED <<otherCycle, otherCycleSkip>>
                                    /\ recvd' = recvd \o <<"mainBegin">>
                     /\ UNCHANGED plan
         ELSE UNCHANGED <<plan, recvd, mainBegin, otherCycle, otherCycleSkip>>
    /\ UNCHANGED <<icache, dcache, l2cache, l2ops, insn_count, load_count, store_count,
                   cp_count, textBegin, textEnd, faultDone, doInject,
                   otherCycleCount, sent, outs, pc>>
    /\ UNCHANGED <<engineVars, translated>>

\* what parse_instruction reports when no fault is to be injected: the
\* messages sent, and mainBegin and otherCycleCount afterwards
ReachReport(vaddr, count) ==
    IF doInject # 0
      THEN [sent |-> <<>>, mainBegin |-> mainBegin, otherCycleCount |-> otherCycleCount]
      ELSE IF mainBegin = 0
        THEN IF vaddr = otherCycle
               THEN [sent |-> IF otherCycleCount + 1 = otherCycleSkip
                                THEN <<Msg("0x%08lX", count)>>
                                ELSE <<>>,
                     mainBegin |-> mainBegin,
                     otherCycleCount |-> otherCycleCount + 1]
               ELSE [sent |-> <<>>, mainBegin |-> mainBegin,
                     otherCycleCount |-> otherCycleCount]
        ELSE IF vaddr >= mainBegin
               THEN [sent |-> <<Msg("0x%08lX", count)>>,
                     mainBegin |-> UINT64_MAX,
                     otherCycleCount |-> otherCycleCount]
               ELSE [sent |-> <<>>, mainBegin |-> mainBegin,
                     otherCycleCount |-> otherCycleCount]

\* parse_instruction: an instruction registered with it is executed
parse_instruction(vaddr) ==
    /\ pc = "run"
    /\ Steps < MaxSteps
    /\ \E c \in Registered("parse_instruction") : c.insn.vaddr = vaddr
    /\ insn_count' = insn_count + 1
    /\ LET h == icache_load(Hier, vaddr)
       IN  /\ icache' = h.icache
           /\ dcache' = h.dcache
           /\ l2cache' = h.l2cache
           /\ l2ops' = h.l2ops
           /\ \E o \in check_insn_count(h, faultDone, insn_count + 1, plan) :
                /\ faultDone' = o.faultDone
                /\ plan' = o.plan
                /\ outs' = outs \o o.outs
                /\ recvd' = recvd \o o.recvd
                /\ pc' = o.pc
                /\ IF o.pc = "crashed"
                     THEN /\ sent' = sent \o o.sent
                          /\ UNCHANGED <<mainBegin, otherCycleCount>>
                     ELSE LET r == ReachReport(vaddr, insn_count + 1)
                          IN  /\ sent' = sent \o o.sent \o r.sent
                              /\ mainBegin' = r.mainBegin
                              /\ otherCycleCount' = r.otherCycleCount
    /\ UNCHANGED <<load_count, store_count, cp_count, tb_count, textBegin, textEnd,
                   doInject, otherCycle, otherCycleSkip>>
    /\ UNCHANGED <<engineVars, decodeVars>>

\* a variant of the body of parse_mem whose .text test leaves textBegin out
parse_mem_body_BeginExclusive(h, addr, is_store) ==
    IF addr < textEnd /\ addr > textBegin
      THEN [h |-> h, loads |-> 0, stores |-> 0]
      ELSE IF is_store
             THEN [h |-> dcache_store(h, addr), loads |-> 0, stores |-> 1]
             ELSE [h |-> dcache_load(h, addr), loads |-> 1, stores |-> 0]

\* the body of parse_mem on the hierarchy h: the hierarchy afterwards and
\* what is added to load_count and to store_count
parse_mem_body(h, addr, is_store) ==
    IF InText(addr)
      THEN [h |-> h, loads |-> 0, stores |-> 0]
      ELSE IF is_store
             THEN [h |-> dcache_store(h, addr), loads |-> 0, stores |-> 1]
             ELSE [h |-> dcache_load(h, addr), loads |-> 1, stores |-> 0]

\* parse_mem: a load or a store of the guest at addr
parse_mem(addr, is_store) ==
    /\ pc = "run"
    /\ Steps < MaxSteps
    /\ Registered("parse_mem") # {}
    /\ LET r == parse_mem_body(Hier, addr, is_store)
       IN  /\ icache' = r.h.icache
           /\ dcache' = r.h.dcache
           /\ l2cache' = r.h.l2cache
           /\ l2ops' = r.h.l2ops
           /\ store_count' = store_count + r.stores
           /\ load_count' = load_count + r.loads
    /\ UNCHANGED <<insn_count, cp_count, tb_count, textBegin, textEnd, plan,
                   faultDone, doInject, mainBegin, otherCycle, otherCycleSkip,
                   otherCycleCount, sent, recvd, outs, pc>>
    /\ UNCHANGED <<engineVars, decodeVars>>

\* a 32-bit guest register, four bytes least significant first, with the
\* DCISW fields: Set in bits [13:4], Way in bits [31:30]
\* a variant of GET_SET_BITS that takes Set from bits [12:5]
GET_SET_BITS_FromBit5(rt) == ((rt[2] % 32) * 8) + (rt[1] \div 32)

GET_SET_BITS(rt) == ((rt[2] % 64) * 16) + (rt[1] \div 16)
GET_WAY_BITS(rt) == rt[4] \div 64
SetWayReg(set, way) == <<(set % 16) * 16, set \div 16, 0, way * 64>>

\* the register values the guest presents to DCISW: the blocks of the D-cache
\* and a Set one past its last row
DcisReadRtInputs ==
    { SetWayReg(r, w) : r \in Rows(dcache) \cup {dcache.rows}, w \in Ways(dcache) }

\* cache_inst: the guest executes DCISW with register value readRt
cache_inst(readRt) ==
    /\ pc = "run"
    /\ Steps < MaxSteps
    /\ Registered("cache_inst") # {}
    /\ \E o \in dcache_invalidate_block(Hier, GET_SET_BITS(readRt), GET_WAY_BITS(readRt)) :
          /\ icache' = o.h.icache
          /\ dcache' = o.h.dcache
          /\ l2cache' = o.h.l2cache
          /\ l2ops' = o.h.l2ops
          /\ pc' = o.pc
          /\ cp_count' = IF o.pc = "crashed" THEN cp_count ELSE cp_count + 1
    /\ UNCHANGED <<insn_count, load_count, store_count, tb_count, textBegin, textEnd,
                   plan, faultDone, doInject, mainBegin, otherCycle, otherCycleSkip,
                   otherCycleCount, sent, recvd, outs>>
    /\ UNCHANGED <<engineVars, decodeVars>>

\* icache_inst: the guest executes ICIALLU
icache_inst ==
    /\ pc = "run"
    /\ Steps < MaxSteps
    /\ Registered("icache_inst") # {}
    /\ LET h == icache_invalidate_all(Hier)
       IN  /\ icache' = h.icache
           /\ dcache' = h.dcache
           /\ l2cache' = h.l2cache
           /\ l2ops' = h.l2ops
    /\ cp_count' = cp_count + 1
    /\ UNCHANGED <<insn_count, load_count, store_count, tb_count, textBegin, textEnd,
                   plan, faultDone, doInject, mainBegin, otherCycle, otherCycleSkip,
                   otherCycleCount, sent, recvd, outs, pc>>
    /\ UNCHANGED <<engineVars, decodeVars>>

\* the handlers registered with atexit by l2cache_init, dcache_init and
\* icache_init, run one after the other when the process exits
cleanup ==
    /\ pc \in {"run", "exited"}
    /\ ~l2cache.freed
    /\ l2cache' = free_cache_struct(l2cache)
    /\ dcache' = free_cache_struct(dcache)
    /\ icache' = free_cache_struct(icache)
    /\ UNCHANGED <<l2ops, insn_count, load_count, store_count, cp_count, tb_count,
                   textBegin, textEnd, plan, faultDone, doInject, mainBegin,
                   otherCycle, otherCycleSkip, otherCycleCount, sent, recvd, outs, pc>>
    /\ UNCHANGED <<engineVars, decodeVars>>

\* plugin_exit: the count of instructions is reported if no sleep was planned
plugin_exit ==
    /\ pc = "run"
    /\ pc' = "exited"
    /\ sent' = IF plan.sleepCycles = 0
                 THEN sent \o <<Msg("0x%08lX\n", insn_count)>>
                 ELSE sent
    /\ UNCHANGED <<icache, dcache, l2cache, l2ops, insn_count, load_count, store_count,
                   cp_count, tb_count, textBegin, textEnd, plan, faultDone,
                   doInject, mainBegin, otherCycle, otherCycleSkip,
                   otherCycleCount, recvd, outs>>
    /\ UNCHANGED <<engineVars, decodeVars>>

Next ==
    \/ \E tb \in TranslationBlocks : put_cbs_in_tbs(tb)
    \/ \E vaddr \in DriverAddrs : parse_instruction(vaddr)
    \/ \E addr \in DriverAddrs, is_store \in BOOLEAN : parse_mem(addr, is_store)
    \/ \E readRt \in DcisReadRtInputs : cache_inst(readRt)
    \/ icache_inst
    \/ cleanup
    \/ plugin_exit

Spec == Init /\ [][Next]_vars

(***************************************************************************)
(* DecodeSpec: one instruction drawn from the words below is translated by *)
(* the plugin and decoded by the load/store decoder.                       *)
(***************************************************************************)
\* the bytes the instruction words are put together from, chosen so that the
\* words include LDR and STR in immediate and register form with every
\* setting of the P and W bits, POP, PUSH, LDM and STM forms, SWP and SWPB, exclusive
\* accesses, halfword loads and stores, DCISW, ICIALLU, other MCR and MRC
\* forms, coprocessor loads and stores, and words of no memory operation
DecodeWords ==
    { <<b0, b1, b2, b3>> : b0 \in {0, 15, 21, 86, 145, 176}, b1 \in {0, 15, 191, 138},
                           b2 \in {0, 7, 23, 45, 64, 141, 189},
                           b3 \in {225, 228, 229, 230, 231, 232, 233, 237, 238} }

\* the instructions drawn: at an address inside and at one outside .text, a
\* word or, for a 16-bit Thumb instruction, the low half of one
DecodeInsns ==
    { GuestInsn(v, d) : v \in {1, 2},
                        d \in DecodeWords \cup { <<w[1], w[2]>> : w \in DecodeWords } }

DecodeInit ==
    /\ qemu_plugin_install("arm")
    /\ \E i \in DecodeInsns : translated = [NoTranslation EXCEPT !.insn = i]

\* the first translation block holds the instruction drawn
TranslateDrawn ==
    /\ tb_count = 0
    /\ put_cbs_in_tbs(<<translated.insn>>)

\* the load/store plugin's SET_STORE_CB and SET_LOAD_CB
SET_STORE_CB(insn) == {[fn |-> "parse_st", insn |-> insn]}
SET_LOAD_CB(insn) == {[fn |-> "parse_ld", insn |-> insn]}

\* the load/store plugin meets a regular load/store word: decode_load_store is
\* applied to the instruction drawn and the store or the load callback is
\* registered by the order of the identifier
DecodeLoadStore ==
    /\ pc = "run"
    /\ translated.decoder = "none"
    /\ INSN_IS_LOAD_STORE(get_insn_bits(translated.insn.data)) # 0
    /\ LET r == decode_load_store(NoInsnOp, get_insn_bits(translated.insn.data))
       IN  /\ translated' = [translated EXCEPT !.decoder = "ldst", !.ret = r.ret,
                                               !.data = r.data]
           /\ cbs' = cbs \cup (IF r.ret = 0 THEN {}
                                ELSE IF r.ret < LD_TYPE_BASE
                                       THEN SET_STORE_CB(translated.insn)
                                       ELSE SET_LOAD_CB(translated.insn))
    /\ UNCHANGED <<engineVars, driverVars>>

\* the load/store plugin meets a block load/store word: decode_block_load_store
\* is applied to the instruction drawn and the store or the load callback is
\* registered by the order of the identifier
DecodeBlock ==
    /\ pc = "run"
    /\ translated.decoder = "none"
    /\ INSN_IS_LOAD_STORE(get_insn_bits(translated.insn.data)) = 0
    /\ INSN_IS_BLOCK_LOAD_STORE(get_insn_bits(translated.insn.data)) = 1
    /\ LET r == decode_block_load_store(NoInsnOp, get_insn_bits(translated.insn.data))
       IN  /\ translated' = [translated EXCEPT !.decoder = "block", !.ret = r.ret,
                                               !.data = r.data]
           /\ cbs' = cbs \cup (IF r.ret = 0 THEN {}
                                ELSE IF r.ret < LD_BLK_TYPE_BASE
                                       THEN SET_STORE_CB(translated.insn)
                                       ELSE SET_LOAD_CB(translated.insn))
    /\ UNCHANGED <<engineVars, driverVars>>

\* the load/store plugin meets a synchronization primitive: a swap gets the
\* store and the load callback, the others one of them
DecodeSync ==
    /\ pc = "run"
    /\ translated.decoder = "none"
    /\ INSN_IS_LOAD_STORE(get_insn_bits(translated.insn.data)) = 0
    /\ INSN_IS_BLOCK_LOAD_STORE(get_insn_bits(translated.insn.data)) = 0
    /\ INSN_IS_EXTRA_LOAD_STORE(get_insn_bits(translated.insn.data))
          = MISC_IS_SYNC_PRIMITIVE
    /\ LET r == decode_sync_load_store(NoInsnOp, get_insn_bits(translated.insn.data))
       IN  /\ translated' = [translated EXCEPT !.decoder = "sync", !.ret = r.ret,
                                               !.data = r.data]
           /\ cbs' = cbs \cup (IF r.ret >= sync_load_store_e.SWAP_WORD
                                  THEN SET_STORE_CB(translated.insn)
                                         \cup SET_LOAD_CB(translated.insn)
                                  ELSE IF r.ret < LD_SYNC_TYPE_BASE
                                    THEN SET_STORE_CB(translated.insn)
                                    ELSE SET_LOAD_CB(translated.insn))
    /\ UNCHANGED <<engineVars, driverVars>>

\* dcache_swp: the generated code of a swap instruction simulates its access
\* to addr
dcache_swp(addr) ==
    /\ pc = "run"
    /\ translated.decoder = "sync"
    /\ translated.ret >= sync_load_store_e.SWAP_WORD
    /\ LoadOps(dcache) + StoreOps(dcache) < MaxSteps
    /\ LET h == dcache_store(dcache_load(Hier, addr), addr)
       IN  /\ icache' = h.icache
           /\ dcache' = h.dcache
           /\ l2cache' = h.l2cache
           /\ l2ops' = h.l2ops
    /\ UNCHANGED <<insn_count, load_count, store_count, cp_count, tb_count, textBegin,
                   textEnd, plan, faultDone, doInject, mainBegin, otherCycle,
                   otherCycleSkip, otherCycleCount, sent, recvd, outs, pc>>
    /\ UNCHANGED <<engineVars, decodeVars>>

DecodeNext ==
    \/ TranslateDrawn
    \/ DecodeLoadStore
    \/ DecodeBlock
    \/ DecodeSync
    \/ \E addr \in DriverAddrs : dcache_swp(addr)

DecodeSpec == DecodeInit /\ [][DecodeNext]_vars

(***************************************************************************)
(* VictimSpec: the engine under POLICY_RANDOM, constructed in a cache_t    *)
(* whose replace.prev init_cache_struct found as the storage held it, and  *)
(* its victim selection called directly and through loads and stores.      *)
(***************************************************************************)
\* calls explored by VictimSpec
MaxSelections == 2

\* what replace.prev holds when init_cache_struct, which does not write it,
\* is given the cache_t: zero in static storage, anything elsewhere
Seeds ==
    { U32Zero, <<1, 0, 0, 0>>, <<2, 0, 0, 0>>, <<143, 188, 0, 0>>,
      <<57, 48, 0, 0>>, <<255, 255, 255, 127>>, <<0, 0, 0, 128>>,
      <<255, 255, 255, 255>>, <<205, 171, 137, 103>> }

SeededGeometries ==
    EngineGeometries \cup {[cacheSize |-> 4, associativity |-> 4, blockSize |-> 1]}

VictimInit ==
    /\ \E g \in SeededGeometries, seed \in Seeds,
          ap \in {POLICY_WRITE_ALLOCATE, POLICY_NO_WRITE_ALLOCATE} :
         cache = init_cache_struct([ZeroCache EXCEPT !.replace.prev = seed],
                                   g.cacheSize, g.associativity, g.blockSize,
                                   POLICY_RANDOM, ap)
    /\ calls = [ops |-> 0, loads |-> 0, liveLoads |-> 0, stores |-> 0,
                liveStores |-> 0, waStoreMisses |-> 0, run |-> StartRun(cache)]
    /\ lastOp = NoOp
    /\ DriverZero

\* cache_get_next_victim(&cache, cache.table[rowIdx], rowIdx)
SelectVictim(rowIdx) ==
    /\ calls.ops < MaxSelections
    /\ LET r == cache_get_next_victim(cache, rowIdx)
       IN  /\ cache' = r.cp
           /\ lastOp' = [NoOp EXCEPT !.op = "victim", !.live = TRUE,
                                     !.row = rowIdx, !.block = r.way]
    /\ calls' = [calls EXCEPT !.ops = @ + 1, !.run = NoRun]
    /\ UNCHANGED <<driverVars, decodeVars>>

SeededLoad(vaddr) == calls.ops < MaxSelections /\ Load(vaddr)
SeededStore(vaddr) == calls.ops < MaxSelections /\ Store(vaddr)

VictimNext ==
    \/ \E rowIdx \in Rows(cache) : SelectVictim(rowIdx)
    \/ \E vaddr \in GuestAddrs(cache) : SeededLoad(vaddr)
    \/ \E vaddr \in GuestAddrs(cache) : SeededStore(vaddr)

VictimSpec == VictimInit /\ [][VictimNext]_vars

(***************************************************************************)
(* Properties of the engine, checked under CacheSpec.                      *)
(***************************************************************************)

\* some way of the row of vaddr holds a valid entry carrying the tag of vaddr
Resident(cp, vaddr) ==
    \E w \in Ways(cp) :
        /\ cp.table[RowIdxOf(cp, vaddr)][w].dirty = CACHE_NOT_DIRTY
        /\ cp.table[RowIdxOf(cp, vaddr)][w].tag = TagBitsOf(cp, vaddr)

\* the ways of the row of vaddr that hold a valid entry with the tag of vaddr
MatchingWays(cp, vaddr) ==
    { w \in Ways(cp) :
        /\ cp.table[RowIdxOf(cp, vaddr)][w].dirty = CACHE_NOT_DIRTY
        /\ cp.table[RowIdxOf(cp, vaddr)][w].tag = TagBitsOf(cp, vaddr) }

RowFull(cp, rowIdx) == \A w \in Ways(cp) : cp.table[rowIdx][w].dirty = CACHE_NOT_DIRTY

\* C1: after every load on a live cache the row of the address holds a valid
\* entry with the address's tag, and a load that immediately follows a load
\* of the same address is a HIT.
C1_LoadLeavesResident ==
    (lastOp.op = "load" /\ lastOp.live) =>
        /\ Resident(cache, lastOp.vaddr)
        /\ (lastOp.again => lastOp.result = CACHE_RESULT_HIT)

\* a load that missed and evicted, repeated at once and found to hit
C1_Witness ==
    /\ lastOp.op = "load"
    /\ lastOp.live
    /\ lastOp.again
    /\ lastOp.result = CACHE_RESULT_HIT
    /\ RowFull(cache, RowIdxOf(cache, lastOp.vaddr))
    /\ cache.load_misses >= 3

\* C2: a store that misses in a WRITE_ALLOCATE cache fills like a load: after
\* it the row of the address holds a valid entry with the address's tag.
C2_WriteAllocateStoreFills ==
    ( /\ lastOp.op = "store"
      /\ lastOp.live
      /\ lastOp.result = CACHE_RESULT_MISS
      /\ cache.alloc_policy = POLICY_WRITE_ALLOCATE )
    => Resident(cache, lastOp.vaddr)

\* C3: compulsory misses plus evictions equal the load misses plus the store
\* misses taken under WRITE_ALLOCATE.
C3_EveryFillCountedOnce ==
    cache.miss_type_counts.compulsory + cache.miss_type_counts.evictions
        = cache.load_misses + calls.waStoreMisses

\* C7 as stated: load_hits + load_misses equals the number of loads ever invoked.
C7_LoadsEverInvoked ==
    cache.load_hits + cache.load_misses = calls.loads

\* C7 as amended: load_hits + load_misses equals the number of loads invoked
\* while the cache was live; a load after teardown changes no counter.
C7_LoadsWhileLive ==
    cache.load_hits + cache.load_misses = calls.liveLoads

\* loads that hit, loads that missed, and a load after teardown
C7_Witness ==
    /\ cache.load_hits > 0
    /\ cache.load_misses > 0
    /\ calls.loads > calls.liveLoads

\* C8 as stated: store_hits + store_misses equals the number of stores ever invoked.
C8_StoresEverInvoked ==
    cache.store_hits + cache.store_misses = calls.stores

\* C8 as amended: store_hits + store_misses equals the number of stores invoked
\* while the cache was live; a store after teardown changes no counter.
C8_StoresWhileLive ==
    cache.store_hits + cache.store_misses = calls.liveStores

\* a store that hit while the cache was live, and a store after teardown
C8_Witness ==
    /\ cache.store_hits > 0
    /\ calls.liveStores > 0
    /\ calls.stores > calls.liveStores

\* no row holds two valid entries with the same tag
NoDuplicateTags ==
    cache.validFlag # 0 =>
    \A r \in Rows(cache) : \A w1, w2 \in Ways(cache) :
        ( /\ w1 # w2
          /\ cache.table[r][w1].dirty = CACHE_NOT_DIRTY
          /\ cache.table[r][w2].dirty = CACHE_NOT_DIRTY )
        => cache.table[r][w1].tag # cache.table[r][w2].tag

\* C9: no row holds two valid entries with the same tag, and after any load
\* or write-allocating store the accessed row holds exactly one valid entry
\* matching the request's tag.
C9_ExactlyOneMatch ==
    /\ NoDuplicateTags
    /\ ( /\ lastOp.live
         /\ \/ lastOp.op = "load"
            \/ lastOp.op = "store" /\ cache.alloc_policy = POLICY_WRITE_ALLOCATE )
       => Cardinality(MatchingWays(cache, lastOp.vaddr)) = 1

\* C10: a store on a NO_WRITE_ALLOCATE cache leaves the entry table and the
\* replacement state as they were; of the whole cache only store_hits or
\* store_misses changes, by one, and only while the cache is live.
C10_NoWriteAllocateStoreFrame ==
    [][ ( /\ calls'.stores = calls.stores + 1
          /\ cache.alloc_policy = POLICY_NO_WRITE_ALLOCATE )
        => /\ cache'.table = cache.table
           /\ cache'.replace = cache.replace
           /\ \/ cache' = [cache EXCEPT !.store_hits = @ + 1]
              \/ cache' = [cache EXCEPT !.store_misses = @ + 1]
              \/ cache.validFlag = 0 /\ cache' = cache ]_vars

\* a store has just missed in a live NO_WRITE_ALLOCATE cache whose row is full
C10_Witness ==
    /\ lastOp.op = "store"
    /\ lastOp.live
    /\ lastOp.result = CACHE_RESULT_MISS
    /\ cache.alloc_policy = POLICY_NO_WRITE_ALLOCATE
    /\ RowFull(cache, RowIdxOf(cache, lastOp.vaddr))
    /\ cache.store_hits > 0

\* C12: once a cache is torn down every operation on it is a no-op: a load or
\* a store returns MISS, get_addr returns 0, block_valid returns 0, an
\* invalidation changes nothing, and no step changes any part of the cache;
\* the freed table, which holds nothing, is never read.
C12_TornDownNoOp ==
    [][ cache.freed =>
          /\ cache' = cache
          /\ (calls'.loads # calls.loads \/ calls'.stores # calls.stores)
                => lastOp'.result = CACHE_RESULT_MISS
          /\ \A row \in Rows(cache), way \in Ways(cache) :
                /\ cache_get_addr_common(cache, row, way) = 0
                /\ cache_block_valid_common(cache, row, way) = 0 ]_vars

\* a cache that was filled, torn down, then stored to and loaded from
C12_Witness ==
    /\ cache.freed
    /\ cache.load_misses > 0
    /\ calls.stores > calls.liveStores
    /\ lastOp.op = "load"
    /\ ~lastOp.live

C14_GetAddrRebuildsBlockAddress ==
    cache.validFlag # 0 =>
        /\ \A row \in Rows(cache), way \in Ways(cache) :
              cache.table[row][way].dirty = CACHE_NOT_DIRTY =>
                  LET T    == cache.table[row][way].tag
                      addr == cache_get_addr_common(cache, row, way)
                  IN  /\ addr = (T * Pow2(cache.maskInfo.tagShift))
                                  + (row * Pow2(cache.maskInfo.rowShift))
                      /\ addr % Pow2(LOG_2(cache.blockSize)) = 0
                      /\ addr \div Pow2(cache.maskInfo.tagShift) = T
                      /\ (addr % Pow2(cache.maskInfo.tagShift))
                            \div Pow2(cache.maskInfo.rowShift) = row
        /\ (lastOp.op = "load" /\ lastOp.live) =>
              \E way \in Ways(cache) :
                  /\ cache.table[RowIdxOf(cache, lastOp.vaddr)][way].dirty = CACHE_NOT_DIRTY
                  /\ cache_get_addr_common(cache, RowIdxOf(cache, lastOp.vaddr), way)
                        = lastOp.vaddr - (lastOp.vaddr % cache.blockSize)

\* a load of an address with a nonzero tag and a nonzero block offset has
\* installed its entry
C14_Witness ==
    /\ cache.validFlag # 0
    /\ cache.blockSize > 1
    /\ lastOp.op = "load"
    /\ lastOp.live
    /\ lastOp.vaddr % cache.blockSize # 0
    /\ TagBitsOf(cache, lastOp.vaddr) > 0
    /\ Resident(cache, lastOp.vaddr)

\* C15: get_addr(row, way) is 0 whenever the cache is torn down or the entry
\* at (row, way) is not valid (never filled, or invalidated since its fill).
C15_GetAddrZeroWhenNotValid ==
    \A row \in Rows(cache), way \in Ways(cache) :
        (cache.validFlag = 0 \/ cache.table[row][way].dirty # CACHE_NOT_DIRTY)
            => cache_get_addr_common(cache, row, way) = 0

\* C18: invalidate_block(row, way) with row >= rows or way >= associativity
\* is a no-op: no entry, counter or replacement state changes, and nothing
\* outside the table is accessed, so the process goes on.
C18_OutOfRangeInvalidateIsNoOp ==
    [][ (/\ calls'.ops = calls.ops + 1
         /\ lastOp'.op = "invalidate"
         /\ (lastOp'.row >= cache.rows \/ lastOp'.block >= cache.associativity))
            => /\ cache' = cache
               /\ pc' = "run" ]_vars

\* the plans validate_injection is asked about: rows, ways and words up to
\* one past what the code accepts
PlansFor(cp) ==
    [cacheRow : 0 .. cp.rows, cacheSet : 0 .. cp.associativity,
     cacheWord : 0 .. (cp.blockSize * SizeofWord),
     sleepCycles : {0}, cacheName : {"DCACHE"}]

\* C20: on a live cache validate_injection returns OK (0) exactly when
\* row < rows, way < associativity and word < blockSize / sizeof(word), and
\* RANGE_ERROR (-1) otherwise; on a torn-down cache it returns INVALID_CACHE (-2).
\* Stated for caches whose blocks hold a whole number of words.
C20_ValidateInjectionBounds ==
    cache.blockSize % SizeofWord = 0 =>
      \A pl \in PlansFor(cache) :
        cache_validate_injection_common(cache, pl) =
            IF cache.validFlag = 0
              THEN -2
              ELSE IF /\ pl.cacheRow < cache.rows
                      /\ pl.cacheSet < cache.associativity
                      /\ pl.cacheWord < cache.blockSize \div SizeofWord
                     THEN 0
                     ELSE -1

\* x is a non-zero power of two
IsPow2(x) == \E n \in 0 .. 5 : x = Pow2(n)

\* the (cacheSize, associativity, blockSize) a caller may hand to
\* init_cache_struct, a row being at most the whole cache
InitInputs ==
    { g \in [cacheSize : 1 .. 8, associativity : 1 .. 3, blockSize : 1 .. 3] :
        g.associativity * g.blockSize <= g.cacheSize }

\* C21: init fails, returning an error and creating no cache state, whenever
\* size, associativity or block size is not a non-zero power of two or
\* rows * associativity * block size differs from size; the structure handed
\* to it is left as it was.
C21_InitRejectsBadGeometry ==
    \A g \in InitInputs, rp \in {POLICY_ROUND_ROBIN, POLICY_RANDOM} :
        LET cp == init_cache_struct(cache, g.cacheSize, g.associativity,
                                    g.blockSize, rp, POLICY_WRITE_ALLOCATE)
        IN  ( \/ ~IsPow2(g.cacheSize)
              \/ ~IsPow2(g.associativity)
              \/ ~IsPow2(g.blockSize)
              \/ cp.rows * g.associativity * g.blockSize # g.cacheSize )
            => /\ init_cache_struct_status(g.cacheSize, g.associativity, g.blockSize) # 0
               /\ cp = cache

\* C27: the cache after a call is a function of the cache before it and of
\* the call: a load or a store leaves the one cache the engine's function
\* gives, and an invalidate has one outcome, whatever row and way it names.
C27_SameCallsSameStates ==
    /\ [](cache.validFlag # 0 =>
            \A row \in InvalidateRows(cache), block \in InvalidateWays(cache) :
                \A o1, o2 \in InvalidateOutcomes(cache, row, block) : o1 = o2)
    /\ [][ /\ lastOp'.op = "load" =>
                cache' = cache_load_common(cache, lastOp'.vaddr).cp
           /\ lastOp'.op = "store" =>
                cache' = cache_store_common(cache, lastOp'.vaddr).cp ]_vars

(***************************************************************************)
(* Properties of the injector, checked under Spec.                         *)
(***************************************************************************)

\* the instruction-execute callback at which the plan's sleep has elapsed
FiringCount == IF plan.sleepCycles = 0 THEN 1 ELSE plan.sleepCycles

RangeErrorReported ==
    \E i \in 1 .. Len(outs) : outs[i] = "ERROR: Invalid injection parameters!"

\* C4: with injection enabled the injector has fired exactly when an
\* instruction-execute callback has run with insn_count >= plan.sleepCycles:
\* never while insn_count is below the sleep, and at the first callback that
\* reaches it, whose count is the one reported.
C4_FiresAtFirstReach ==
    doInject # 0 =>
        /\ faultDone = 1 <=> (insn_count >= 1 /\ insn_count >= plan.sleepCycles)
        /\ (faultDone = 1 /\ pc # "crashed") =>
              /\ Len(sent) >= 3
              /\ sent[2] = Msg("0x%08lX", FiringCount)

\* the injector has fired at the second callback, after a callback below the sleep
C4_Witness ==
    /\ doInject # 0
    /\ plan.sleepCycles = 2
    /\ insn_count = 2
    /\ faultDone = 1
    /\ Len(sent) = 3

\* C5: once the injector has fired it stays fired, and no later step asks the
\* collaborator for anything or sends it anything, other than the count of
\* instructions reported at exit.
C5_FiredIsInert ==
    [][ (doInject # 0 /\ faultDone = 1) =>
            /\ faultDone' = 1
            /\ plan' = plan
            /\ recvd' = recvd
            /\ \/ sent' = sent
               \/ pc = "run" /\ pc' = "exited" ]_vars

\* instruction-execute callbacks have run after the one that fired
C5_Witness ==
    /\ doInject # 0
    /\ faultDone = 1
    /\ pc = "run"
    /\ insn_count >= FiringCount + 2
    /\ Len(recvd) = 5
    /\ Len(sent) = 3

\* C6: when the range check of the received plan fails, the error is reported
\* and the injector remains armed (faultDone stays 0).
C6_RangeErrorStaysArmed ==
    (doInject # 0 /\ RangeErrorReported) => faultDone = 0

(***************************************************************************)
(* Properties of the hierarchy, checked under Spec.                        *)
(***************************************************************************)

\* C11 as stated: the calls of l2cache_load number the load misses of the
\* I-cache and of the D-cache, the calls of l2cache_store the store misses of
\* the D-cache.
C11_L2OpsEqualL1Misses ==
    /\ l2ops.loads = icache.load_misses + dcache.load_misses
    /\ l2ops.stores = dcache.store_misses

\* C11 as amended: in every step the L2 cache is called once for each miss
\* the live first-level caches count, and not on a hit; once the first-level
\* caches are torn down every access returns MISS uncounted and is forwarded.
C11_ForwardExactlyOnMiss ==
    [][ /\ l2ops'.loads - l2ops.loads =
             IF icache.validFlag # 0 /\ dcache.validFlag # 0
               THEN (icache'.load_misses - icache.load_misses)
                      + (dcache'.load_misses - dcache.load_misses)
               ELSE (insn_count' - insn_count) + (load_count' - load_count)
        /\ l2ops'.stores - l2ops.stores =
             IF dcache.validFlag # 0
               THEN dcache'.store_misses - dcache.store_misses
               ELSE store_count' - store_count ]_vars

\* a first-level hit, and a load and a store forwarded, with the caches live
C11_Witness ==
    /\ icache.validFlag # 0
    /\ icache.load_hits > 0
    /\ l2ops.loads > 0
    /\ l2ops.stores > 0
    /\ l2ops.loads = icache.load_misses + dcache.load_misses


\* C16: on firing, the address sent to the collaborator is get_addr(plan.cacheRow,
\* plan.cacheSet) of the cache plan.cacheName selects, plus plan.cacheWord *
\* sizeof(word), in the arithmetic of the word; it is the last message of the
\* firing, after the validity flag and the instruction count.
C16_EmittedAddress ==
    [][ (faultDone = 0 /\ faultDone' = 1 /\ doInject # 0 /\ pc' = "run") =>
            LET hp == [icache |-> icache', dcache |-> dcache',
                       l2cache |-> l2cache', l2ops |-> l2ops']
                cp == CacheOf(hp, plan'.cacheName)
            IN  /\ Len(sent') = Len(sent) + 3
                /\ \E addr \in GetAddrOutcomes(cp, plan'.cacheRow, plan'.cacheSet) :
                      sent'[Len(sent')] =
                          Msg("0x%08X",
                              (addr + plan'.cacheWord * SizeofWord) % WordMod)
                /\ InTable(cp, plan'.cacheRow, plan'.cacheSet) =>
                      sent'[Len(sent')] =
                          Msg("0x%08X",
                              (cache_get_addr_common(cp, plan'.cacheRow, plan'.cacheSet)
                                  + plan'.cacheWord * SizeofWord) % WordMod) ]_vars

\* the injector fired on the data cache at row 0, way 0, word 1, where a block
\* of tag 1 was resident: the address sent is (1 << tagShift) + 1 * sizeof(word)
C16_Witness ==
    /\ doInject # 0
    /\ faultDone = 1
    /\ pc = "run"
    /\ plan.cacheName = "DCACHE"
    /\ plan.cacheRow = 0
    /\ plan.cacheSet = 0
    /\ plan.cacheWord = 1
    /\ dcache.validFlag # 0
    /\ dcache.table[0][0] = [tag |-> 1, dirty |-> CACHE_NOT_DIRTY]
    /\ Len(sent) = 3
    /\ sent[1] = Msg("%hhu\n", 1)
    /\ sent[3] = Msg("0x%08X", (Shl(1, dcache.maskInfo.tagShift) + SizeofWord) % WordMod)


\* C17: on firing, if the slot (plan.cacheRow, plan.cacheSet) of the selected
\* cache is not valid, the injection is rejected: an error is reported and no
\* target address is sent to the collaborator.
C17_InvalidSlotRejected ==
    [][ (faultDone = 0 /\ faultDone' = 1 /\ doInject # 0 /\ pc' = "run") =>
            LET hp == [icache |-> icache', dcache |-> dcache',
                       l2cache |-> l2cache', l2ops |-> l2ops']
                cp == CacheOf(hp, plan'.cacheName)
            IN  (/\ cp.validFlag # 0
                 /\ InTable(cp, plan'.cacheRow, plan'.cacheSet)
                 /\ cache_block_valid_common(cp, plan'.cacheRow, plan'.cacheSet) = 0)
                    => /\ Len(outs') > Len(outs)
                       /\ \A i \in (Len(sent) + 1) .. Len(sent') :
                             sent'[i].fmt # "0x%08X" ]_vars


\* the hit and miss counters of a cache
CountersOf(cp) ==
    <<cp.load_hits, cp.load_misses, cp.store_hits, cp.store_misses, cp.miss_type_counts>>

\* C19: invalidate_all leaves every entry of the cache invalid and every
\* counter as it was, touches no other cache, and a second invalidate_all
\* right after it changes nothing more.
C19_InvalidateAllKeepsCounters ==
    LET once  == icache_invalidate_all(Hier)
        twice == icache_invalidate_all(once)
    IN  /\ icache.validFlag # 0 =>
              \A r \in Rows(icache), w \in Ways(icache) :
                  /\ once.icache.table[r][w].dirty # CACHE_NOT_DIRTY
                  /\ cache_block_valid_common(once.icache, r, w) = 0
        /\ CountersOf(once.icache) = CountersOf(icache)
        /\ once.dcache = dcache
        /\ once.l2cache = l2cache
        /\ once.l2ops = l2ops
        /\ twice = once

\* two ICIALLU executed after a fetch that missed: the I-cache is live, has
\* counted the miss and holds no valid entry
C19_Witness ==
    /\ icache.validFlag # 0
    /\ icache.load_misses > 0
    /\ insn_count > 0
    /\ cp_count = 2
    /\ dcache.load_misses = 0
    /\ \A r \in Rows(icache), w \in Ways(icache) :
          icache.table[r][w].dirty # CACHE_NOT_DIRTY


(***************************************************************************)
(* Cache-control instructions (Spec).                                      *)
(***************************************************************************)
\* the instructions translated so far
Translated == {c.insn : c \in cbs}

\* data is an MCR word on a coprocessor whose number without bit 0 is 0xE,
\* with opc1 0, CRn 7 and the given CRm and opc2
IsCacheMcr(data, crm, opc2) ==
    /\ Len(data) = 4
    /\ Field(data, 24, 4) = 14
    /\ Field(data, 20, 1) = 0
    /\ Field(data, 4, 1) = 1
    /\ BitAnd(Field(data, 8, 4), 14) = 14
    /\ Field(data, 21, 3) = 0
    /\ Field(data, 16, 4) = 7
    /\ Field(data, 0, 4) = crm
    /\ Field(data, 5, 3) = opc2

C24_TextInsnsCounted ==
    /\ [](\A i \in Translated :
             ([fn |-> "parse_instruction", insn |-> i] \in cbs)
                <=> (textBegin <= i.vaddr /\ i.vaddr < textEnd))
    /\ [][ /\ insn_count' # insn_count =>
                /\ insn_count' = insn_count + 1
                /\ \E i \in Translated :
                      /\ textBegin <= i.vaddr /\ i.vaddr < textEnd
                      /\ LET h == icache_load(Hier, i.vaddr)
                         IN  /\ icache' = h.icache
                             /\ l2cache' = h.l2cache
                             /\ \E o \in check_insn_count(h, faultDone, insn_count',
                                                         plan) :
                                   /\ faultDone' = o.faultDone
                                   /\ plan' = o.plan
                                   /\ pc' = o.pc
           /\ icache' # icache =>
                \/ insn_count' # insn_count
                \/ cp_count' # cp_count
                \/ icache'.freed ]_vars

\* an instruction of .text was executed, counted and fetched through the
\* I-cache after a block with instructions at and past textEnd was translated
C24_Witness ==
    /\ insn_count = 1
    /\ icache.load_misses = 1
    /\ \E i \in Translated : i.vaddr = textEnd
    /\ \E i \in Translated : i.vaddr > textEnd
    /\ Registered("parse_instruction") # {}


\* C25: a memory access at an address of .text leaves the caches and the
\* counts as they are; any other access adds one to store_count and makes one
\* dcache_store if it is a store, and adds one to load_count and makes one
\* dcache_load otherwise, the I-cache being left alone.
C25_MemAccessOutsideTextOnly ==
    (pc = "run" /\ Registered("parse_mem") # {}) =>
        \A addr \in DriverAddrs, is_store \in BOOLEAN :
            LET r == parse_mem_body(Hier, addr, is_store)
            IN  IF textBegin <= addr /\ addr < textEnd
                  THEN r.h = Hier /\ r.loads = 0 /\ r.stores = 0
                  ELSE /\ r.stores = (IF is_store THEN 1 ELSE 0)
                       /\ r.loads = (IF is_store THEN 0 ELSE 1)
                       /\ r.h.icache = icache
                       /\ (dcache.validFlag # 0 /\ ~dcache.freed) =>
                             /\ StoreOps(r.h.dcache)
                                  = StoreOps(dcache) + (IF is_store THEN 1 ELSE 0)
                             /\ LoadOps(r.h.dcache)
                                  = LoadOps(dcache) + (IF is_store THEN 0 ELSE 1)

\* a load and a store outside .text were each counted once by the driver and
\* by the D-cache, and nothing was fetched
C25_Witness ==
    /\ pc = "run"
    /\ load_count = 1
    /\ store_count = 1
    /\ insn_count = 0
    /\ dcache.validFlag # 0
    /\ LoadOps(dcache) = 1
    /\ StoreOps(dcache) = 1
    /\ LoadOps(icache) = 0


(***************************************************************************)
(* The instruction decoder (DecodeSpec).                                   *)
(***************************************************************************)
\* C26: a swap instruction gets both the store and the load callback, and
\* the step that simulates its access makes one D-cache store and then one
\* D-cache load of its address.
C26_SwapStoresThenLoads ==
    /\ [](translated.decoder = "sync" /\ translated.ret >= sync_load_store_e.SWAP_WORD
            => /\ SET_STORE_CB(translated.insn) \subseteq cbs
               /\ SET_LOAD_CB(translated.insn) \subseteq cbs)
    /\ [][ (translated.decoder = "sync" /\ dcache' # dcache) =>
              \E addr \in DriverAddrs :
                  [icache |-> icache', dcache |-> dcache', l2cache |-> l2cache',
                   l2ops |-> l2ops'] = dcache_load(dcache_store(Hier, addr), addr) ]_vars


\* C28: an instruction that is not 4 bytes long is refused: the word put
\* together from its bytes is taken for no load, store or coprocessor
\* instruction by any classifier, no decoder is applied to it, and the only
\* callback it gets is parse_instruction.
C28_NonWordInsnRefused ==
    /\ \A c \in cbs : Len(c.insn.data) # 4 => c.fn = "parse_instruction"
    /\ Len(translated.insn.data) # 4 =>
          LET insn_bits == get_insn_bits(translated.insn.data)
          IN  /\ translated.decoder = "none"
              /\ INSN_IS_LOAD_STORE(insn_bits) = 0
              /\ INSN_IS_BLOCK_LOAD_STORE(insn_bits) = 0
              /\ INSN_IS_EXTRA_LOAD_STORE(insn_bits) = 0
              /\ DecodeCoproc(NoInsnOp, insn_bits).ret = 0


(***************************************************************************)
(* Installation (Spec).                                                    *)
(***************************************************************************)
\* C29: on a target that is not ARM the driver still installs: installation
\* never ends in a refusal, so that translation, counting and the cache
\* accesses go on and only the cache-control callbacks are left out.
C29_NonArmStillInstalls ==
    /\ pc # "refused"
    /\ "ERROR: Architecture not supported!" \notin {outs[i] : i \in DOMAIN outs}


(***************************************************************************)
(* The block decoder (DecodeSpec).                                         *)
(***************************************************************************)
\* C30: the word 0xE8BD000F (bytes 0F 00 BD E8, pop {r0-r3}) is a block
\* load/store for the classifier, and decode_block_load_store gives it the
\* identifier POP_MULT, one of the load identifiers, with Rn = 13 and the
\* register list 0x000F; the driver's decode of the word records just that.
C30_PopMultDecoded ==
    translated.insn.data = <<15, 0, 189, 232>> =>
        LET insn_bits == get_insn_bits(translated.insn.data)
            r == decode_block_load_store(NoInsnOp, insn_bits)
        IN  /\ INSN_IS_BLOCK_LOAD_STORE(insn_bits) = 1
            /\ r.ret = block_load_store_e.POP_MULT
            /\ r.ret >= LD_TYPE_BASE
            /\ r.data.Rn = 13
            /\ r.data.imm = 15
            /\ translated.decoder = "block" =>
                  /\ translated.ret = block_load_store_e.POP_MULT
                  /\ translated.data.Rn = 13
                  /\ translated.data.imm = 15

\* the word 0xE8BD000F has been translated and decoded as a block transfer
C30_Witness ==
    /\ translated.insn.data = <<15, 0, 189, 232>>
    /\ translated.decoder = "block"
    /\ translated.ret = block_load_store_e.POP_MULT


(***************************************************************************)
(* Filling and replacement (CacheSpec).                                    *)
(***************************************************************************)
\* the call just made was a load or a store of a live cache
AccessStep == /\ calls'.ops = calls.ops + 1
              /\ lastOp'.op \in {"load", "store"}
              /\ lastOp'.live

\* the call just made was a load of a live cache that missed
LoadMissStep == /\ AccessStep
                /\ lastOp'.op = "load"
                /\ lastOp'.result = CACHE_RESULT_MISS

\* C31: a load miss on a row with an invalid entry fills an invalid entry:
\* the table changes in that one way only, which was invalid, and the
\* round-robin cursors and the seed are as before.  The replacement state is
\* advanced by an access only when the row of the address has no invalid way.
C31_InvalidSlotFilledFirst ==
    [][ LET row == RowIdxOf(cache, lastOp'.vaddr)
            tag == TagBitsOf(cache, lastOp'.vaddr)
        IN  /\ (LoadMissStep /\ ~RowFull(cache, row)) =>
                  /\ cache'.replace = cache.replace
                  /\ \E w \in Ways(cache) :
                        /\ cache.table[row][w].dirty # CACHE_NOT_DIRTY
                        /\ cache'.table =
                             [cache.table EXCEPT ![row][w] =
                                 [tag |-> tag, dirty |-> CACHE_NOT_DIRTY]]
            /\ (AccessStep /\ cache'.replace # cache.replace) =>
                  RowFull(cache, row)
      ]_vars

\* a row of two ways has been filled by two load misses, the first entry is
\* still there beside the second, and the cursor of the row has not moved
C31_Witness ==
    /\ lastOp.op = "load" /\ lastOp.live /\ lastOp.result = CACHE_RESULT_MISS
    /\ calls.ops = 2 /\ calls.loads = 2
    /\ cache.associativity = 2
    /\ cache.replace_policy = POLICY_ROUND_ROBIN
    /\ LET row == RowIdxOf(cache, lastOp.vaddr)
       IN  /\ RowFull(cache, row)
           /\ cache.table[row][0].tag # cache.table[row][1].tag
           /\ cache.table[row][1].tag = TagBitsOf(cache, lastOp.vaddr)
           /\ cache.replace.round_robin[row] = 0


\* the access just made went through victim selection: a load miss, or a
\* store under write-allocate, on a row without an invalid way
SelectionStep ==
    /\ AccessStep
    /\ RowFull(cache, RowIdxOf(cache, lastOp'.vaddr))
    /\ \/ lastOp'.op = "load" /\ lastOp'.result = CACHE_RESULT_MISS
       \/ lastOp'.op = "store" /\ cache.alloc_policy = POLICY_WRITE_ALLOCATE

\* C32: under ROUND_ROBIN every row's cursor is 0 after init; a victim
\* selection in a row takes the way the row's cursor names and leaves the
\* cursor at (cursor + 1) mod associativity and every other row's cursor as
\* it was; no other call moves a cursor of a live cache, so that the
\* replacements of a full row go through the ways in order.
C32_RoundRobinCursor ==
    /\ []( ( /\ cache.replace_policy = POLICY_ROUND_ROBIN
              /\ calls.ops = 0 ) =>
              \A r \in Rows(cache) : cache.replace.round_robin[r] = 0 )
    /\ [][ ( /\ cache.replace_policy = POLICY_ROUND_ROBIN
             /\ cache.validFlag # 0
             /\ calls'.ops = calls.ops + 1
             /\ lastOp'.op # "free" ) =>
           LET row == RowIdxOf(cache, lastOp'.vaddr)
               cur == cache.replace.round_robin[row]
           IN  IF SelectionStep
                 THEN /\ cache'.replace.round_robin =
                           [cache.replace.round_robin EXCEPT
                               ![row] = (cur + 1) % cache.associativity]
                      /\ lastOp'.op = "load" =>
                           cache'.table =
                             [cache.table EXCEPT ![row][cur] =
                                 [tag   |-> TagBitsOf(cache, lastOp'.vaddr),
                                  dirty |-> CACHE_NOT_DIRTY]]
                 ELSE cache'.replace = cache.replace
       ]_vars

\* two replacements in a row of two ways: the second took way 1 after the
\* first took way 0, and the cursor is back at 0
C32_Witness ==
    /\ cache.replace_policy = POLICY_ROUND_ROBIN
    /\ cache.associativity = 2
    /\ calls.ops = 4 /\ calls.loads = 4
    /\ cache.load_misses = 4
    /\ lastOp.op = "load" /\ lastOp.result = CACHE_RESULT_MISS
    /\ LET row == RowIdxOf(cache, lastOp.vaddr)
       IN  /\ cache.table[row][1].tag = TagBitsOf(cache, lastOp.vaddr)
           /\ cache.table[row][0].tag # cache.table[row][1].tag
           /\ RowFull(cache, row)
           /\ cache.replace.round_robin[row] = 0
           /\ \E r \in Rows(cache) : r # row /\ ~RowFull(cache, r)


\* a and b lie in the same block of the cache
SameBlock(cp, a, b) == a \div cp.blockSize = b \div cp.blockSize

\* C36: in a live cache two addresses of one block have the same row and the
\* same tag; a load that misses leaves every address of its block resident,
\* and a load or store of any address of a block that is resident hits.
C36_SameBlockHits ==
    /\ []( cache.validFlag # 0 =>
             \A a, b \in Addrs :
                SameBlock(cache, a, b) =>
                   /\ RowIdxOf(cache, a) = RowIdxOf(cache, b)
                   /\ TagBitsOf(cache, a) = TagBitsOf(cache, b) )
    /\ [][ AccessStep =>
             /\ LoadMissStep =>
                   \A b \in Addrs : SameBlock(cache, b, lastOp'.vaddr) =>
                                        Resident(cache', b)
             /\ (\E b \in Addrs : /\ SameBlock(cache, b, lastOp'.vaddr)
                                  /\ Resident(cache, b)) =>
                   lastOp'.result = CACHE_RESULT_HIT
       ]_vars

\* a load missed and filled, and the load after it, of another address of
\* the same block, hit
C36_Witness ==
    /\ cache.validFlag # 0
    /\ cache.blockSize >= 2
    /\ calls.ops = 2 /\ calls.loads = 2
    /\ cache.load_misses = 1 /\ cache.load_hits = 1
    /\ lastOp.op = "load" /\ lastOp.result = CACHE_RESULT_HIT
    /\ ~lastOp.again

\* C34: a store that hits in a live WRITE_ALLOCATE cache leaves the table,
\* the round-robin cursors and the seed as they were: the cache after it is
\* the cache before it with store_hits one higher.
C34_StoreHitOnlyCounts ==
    [][ ( /\ AccessStep
          /\ lastOp'.op = "store"
          /\ lastOp'.result = CACHE_RESULT_HIT
          /\ cache.alloc_policy = POLICY_WRITE_ALLOCATE ) =>
        cache' = [cache EXCEPT !.store_hits = @ + 1]
      ]_vars

\* length of the run of replacements looked at
RunLength == 8

\* the ways the next n victim selections take, starting from the seed given
RECURSIVE WaysTaken(_, _, _)
WaysTaken(seed, associativity, n) ==
    IF n = 0
      THEN {}
      ELSE LET t == RANDOM_U32(seed)
           IN  {U32Mod(t, associativity)} \cup WaysTaken(t, associativity, n - 1)

\* C40: in a live RANDOM cache the replacement state is such that a run of
\* replacements of a full row takes every way of the row.
C40_EveryWayChosen ==
    (cache.validFlag # 0 /\ cache.replace_policy = POLICY_RANDOM) =>
        WaysTaken(cache.replace.prev, cache.associativity, RunLength) = Ways(cache)

(***************************************************************************)
(* The RANDOM policy (VictimSpec).                                         *)
(***************************************************************************)
\* the low 15 bits of a uint32_t kept as four bytes
Low15(x) == x[1] + 256 * (x[2] % 128)

\* C33: under RANDOM a victim selection leaves the seed at the old seed
\* times 48271 modulo 2^32 and takes the way that is the new seed modulo
\* associativity, whatever the row; a call that selects no victim leaves the
\* seed as it was.
C33_RandomSeedUpdate ==
    [][ (calls'.ops = calls.ops + 1) =>
          LET s == cache.replace.prev
              t == cache'.replace.prev
              row == RowIdxOf(cache, lastOp'.vaddr)
              way == Low15(t) % cache.associativity
          IN  IF lastOp'.op = "victim" \/ SelectionStep
                THEN /\ t = U32MulSmall(s, 48271)
                     /\ Low15(t) = (Low15(s) * 48271) % 32768
                     /\ lastOp'.op = "victim" => lastOp'.block = way
                     /\ lastOp'.op = "load" =>
                           cache'.table =
                             [cache.table EXCEPT ![row][way] =
                                 [tag   |-> TagBitsOf(cache, lastOp'.vaddr),
                                  dirty |-> CACHE_NOT_DIRTY]]
                ELSE t = s
      ]_vars

\* two selections from the seed 0x6789ABCD in a cache of four ways: the seed
\* is 0x6789ABCD * 48271 * 48271 mod 2^32 = 0xF65CAA2D and the way taken is 1
C33_Witness ==
    /\ cache.associativity = 4
    /\ calls.ops = 2
    /\ lastOp.op = "victim"
    /\ cache.replace.prev = <<45, 170, 92, 246>>
    /\ lastOp.block = 1


(***************************************************************************)
(* The injection plan (Spec).                                              *)
(***************************************************************************)
\* C35: the range check of an injection is made on the plan as received in
\* full: once the injector has fired and the caches are live, the range
\* error has been reported exactly when the plan held, with its row, way,
\* cache and word, fails validate_injection of the cache it names.
C35_CompletePlanValidated ==
    ( /\ doInject # 0
      /\ faultDone = 1
      /\ pc = "run"
      /\ CacheOf(Hier, plan.cacheName).validFlag # 0 ) =>
        ( RangeErrorReported <=>
            cache_validate_injection_common(CacheOf(Hier, plan.cacheName), plan) # 0 )


(***************************************************************************)
(* The regular load/store decoder (DecodeSpec).                            *)
(***************************************************************************)
\* the identifiers of the immediate and the register forms
ImmOrRegForms ==
    { load_store_e.STR_REG_IMM, load_store_e.STR_REG,
      load_store_e.STR_REG_IMM_BYTE, load_store_e.STR_REG_BYTE,
      load_store_e.LD_REG_IMM, load_store_e.LD_REG,
      load_store_e.LD_REG_IMM_BYTE, load_store_e.LD_REG_BYTE }

\* C37: for a regular load/store word decoded in immediate or register form
\* the index flag is set exactly when bit 24 (P) of the word is set, and the
\* wback flag exactly when P is clear or bit 21 (W) is set.
C37_IndexAndWbackFlags ==
    (translated.decoder = "ldst" /\ translated.ret \in ImmOrRegForms) =>
        LET insn_bits == get_insn_bits(translated.insn.data)
            P == Field(insn_bits, 24, 1)
            W == Field(insn_bits, 21, 1)
        IN  /\ translated.data.index = 1 <=> P = 1
            /\ translated.data.wback = 1 <=> (P = 0 \/ W = 1)


(***************************************************************************)
(* The order of the block identifiers (DecodeSpec).                        *)
(***************************************************************************)
BlockLoadIds ==
    { block_load_store_e.LDM_DEC_AFT, block_load_store_e.LDM_DEC_BEF,
      block_load_store_e.LDM_INC_AFT, block_load_store_e.LDM_INC_BEF,
      block_load_store_e.LDM_USR_REG, block_load_store_e.LDM_EXC_RET,
      block_load_store_e.POP_MULT }

BlockStoreIds ==
    { block_load_store_e.STRM_DEC_AFT, block_load_store_e.STRM_DEC_BEF,
      block_load_store_e.STRM_INC_AFT, block_load_store_e.STRM_INC_BEF,
      block_load_store_e.STRM_USR_REG, block_load_store_e.PUSH_MULT }

\* C38: a block-load identifier returned by the decoder is at or above
\* LD_BLK_TYPE_BASE and the driver registers the load callback for the
\* instruction; a block-store identifier is below it and the driver
\* registers the store callback.
C38_BlockIdsOrdered ==
    (translated.decoder = "block" /\ translated.ret # 0) =>
        /\ translated.ret \in BlockLoadIds =>
              /\ translated.ret >= LD_BLK_TYPE_BASE
              /\ [fn |-> "parse_ld", insn |-> translated.insn] \in cbs
              /\ [fn |-> "parse_st", insn |-> translated.insn] \notin cbs
        /\ translated.ret \in BlockStoreIds =>
              /\ translated.ret < LD_BLK_TYPE_BASE
              /\ [fn |-> "parse_st", insn |-> translated.insn] \in cbs
              /\ [fn |-> "parse_ld", insn |-> translated.insn] \notin cbs


(***************************************************************************)
(* The driver's counters (Spec).                                           *)
(***************************************************************************)
\* C39: while the plugin runs and its first-level caches are live, the
\* driver's counters are those of the caches: insn_count the loads of the
\* I-cache, load_count the loads of the D-cache, store_count its stores.
C39_CountersAgree ==
    (pc = "run" /\ icache.validFlag # 0 /\ dcache.validFlag # 0) =>
        /\ insn_count = LoadOps(icache)
        /\ load_count = LoadOps(dcache)
        /\ store_count = StoreOps(dcache)
        /\ StoreOps(icache) = 0

\* an instruction, a load and a store have each been counted while the
\* caches were live, the load and the store missing in the D-cache
C39_Witness ==
    /\ pc = "run" /\ icache.validFlag # 0 /\ dcache.validFlag # 0
    /\ insn_count >= 1
    /\ load_count >= 1
    /\ store_count >= 1
    /\ dcache.store_misses >= 1
    /\ dcache.load_misses >= 1

====
